---- MODULE Spec2Model ----
(***************************************************************************)
(* Governed execution pipeline of PromptArchitect (services/geminiService  *)
(* and its caller ExecutionView.handleRun): the TokenBucket rate limiter,  *)
(* the withRetry backoff wrapper, the model router and the three           *)
(* orchestration workflows; and of the template store with its hybrid      *)
(* ranking (services/storageService) and the debounced search of           *)
(* LibraryView.                                                            *)
(*                                                                         *)
(* Time is the reading of Date.now() in whole seconds.  Token amounts are  *)
(* JavaScript doubles in the source; here they are exact rationals held as *)
(* integers in units of 1/TokenUnit token, so that one second of refill    *)
(* (15/60 or 2/60 token) is a whole number of units.                       *)
(***************************************************************************)
EXTENDS Integers, Sequences, FiniteSets, TLC

VARIABLES now, ticks, tokens, lastRefill, localStorage, constructed,
          peer, granted, templates, limiter, op,
          okCount, unitOnly, cthAt, cthDrained, lateAfter,
          fn, args, retries, delay, attempts, slept, rpc, result,
          isExecuting, prompt, step, sent, steps, currentResponse, res,
          start, invoked, inflight, failed, runs,
          searchTerm, prompts, isSearching, handler, pending, apiKey, issued,
          peakUsage

bucketVars == <<tokens, lastRefill, localStorage, constructed, peer, granted>>
histVars == <<okCount, unitOnly, cthAt, cthDrained, lateAfter>>
clockVars == <<now, ticks>>
retryVars == <<fn, args, retries, delay, attempts, slept, rpc, result>>
vars == <<now, ticks, tokens, lastRefill, localStorage, constructed,
          peer, granted, templates, limiter, op,
          okCount, unitOnly, cthAt, cthDrained, lateAfter,
          fn, args, retries, delay, attempts, slept, rpc, result,
          isExecuting, prompt, step, sent, steps, currentResponse, res,
          start, invoked, inflight, failed, runs,
          searchTerm, prompts, isSearching, handler, pending, apiKey, issued,
          peakUsage>>
\* the state of the library view, and the history variable of the store
viewVars == <<searchTerm, prompts, isSearching, handler, pending, apiKey, issued,
              peakUsage>>
flowVars == <<isExecuting, prompt, start, step, sent, steps, currentResponse, res,
              invoked, inflight, failed, runs, templates>>

(* ------------------------------ bounds --------------------------------- *)
\* number of times the wall clock is seen to change in one behaviour
MaxTicks == 4
\* largest cost passed to consume
MaxCost == 2
\* the amounts, in seconds, by which the wall clock moves forward / is set back
TickSteps == {1, 30}
BackSteps == {1}
\* number of times the Run button is pressed in one behaviour
MaxRuns == 3
\* number of times the user lets time pass between two runs
MaxWaits == 1
\* the calls of a run are counted per model up to this number
MaxCounted == 4
\* number of times the search box is edited in one behaviour
MaxQueries == 2
\* largest number of templates in an imported file
MaxImport == 2
\* largest maxRetries passed to withRetry
MaxRetries == 3
\* the initialDelay values, in milliseconds, passed to withRetry
InitialDelays == {1000, 300}

(* ----------------------------- TokenBucket ----------------------------- *)
TokenUnit == 60

Tiers == {"flash", "pro"}

\* new TokenBucket(15, 15 / 60, 'flash') and new TokenBucket(2, 2 / 60, 'pro')
maxTokens(t) == IF t = "flash" THEN 15 ELSE 2

\* refillRatePerSecond, in units of 1/TokenUnit token per second
refillRatePerSecond(t) == IF t = "flash" THEN 15 ELSE 2

storageKey(t) == IF t = "flash" THEN "pa_ratelimit_flash" ELSE "pa_ratelimit_pro"

StorageKeys == {storageKey(t) : t \in Tiers}

NoItem == [absent |-> TRUE]

Min(a, b) == IF a <= b THEN a ELSE b

\* the bucket object's two mutable fields
Bucket(t) == [tokens |-> tokens[t], lastRefill |-> lastRefill[t]]

\* stored strings that saveState did not write: the empty string, text that
\* is not JSON, and the JSON text null
EmptyItem == [text |-> ""]
Garbled == [text |-> "{tokens:"]
NullItem == [text |-> "null"]

\* if (saved): null and the empty string are falsy
Truthy(saved) == saved \notin {NoItem, EmptyItem}

\* JSON.parse(saved) throws a SyntaxError, or parsed.tokens a TypeError
ConstructThrows(saved) == Truthy(saved) /\ saved \in {Garbled, NullItem}

\* constructor: the saved record when there is one, a full bucket otherwise
Construct(t, saved, clock) ==
  IF Truthy(saved)
  THEN [tokens |-> saved.tokens, lastRefill |-> saved.lastRefill]
  ELSE [tokens |-> maxTokens(t) * TokenUnit, lastRefill |-> clock]

\* saveState: the item written under the bucket's storage key
SavedItem(b) == [tokens |-> b.tokens, lastRefill |-> b.lastRefill]

\* refill that adds the elapsed amount without the Math.min cap
RefillState_NoCap(t, b, clock) ==
  IF clock - b.lastRefill > 0
  THEN [tokens |-> b.tokens + (clock - b.lastRefill) * refillRatePerSecond(t),
        lastRefill |-> clock]
  ELSE b

\* refill that forgets to move lastRefill to the current time
RefillState_KeepLast(t, b, clock) ==
  IF clock - b.lastRefill > 0
  THEN [tokens |-> Min(maxTokens(t) * TokenUnit,
                       b.tokens + (clock - b.lastRefill) * refillRatePerSecond(t)),
        lastRefill |-> b.lastRefill]
  ELSE b

\* refill: the bucket after refill() at the given clock reading, and whether
\* it saved its state
RefillState(t, b, clock) ==
  IF clock - b.lastRefill > 0
  THEN [tokens |-> Min(maxTokens(t) * TokenUnit,
                       b.tokens + (clock - b.lastRefill) * refillRatePerSecond(t)),
        lastRefill |-> clock]
  ELSE b

RefillSaves(b, clock) == clock - b.lastRefill > 0

\* consume: the value returned for the given cost (in whole tokens)
ConsumeAllowed(t, b, cost, clock) ==
  RefillState(t, b, clock).tokens >= cost * TokenUnit

\* consume that always deducts one token, whatever the cost
ConsumeState_UnitCost(t, b, cost, clock) ==
  LET r == RefillState(t, b, clock)
  IN  IF r.tokens >= cost * TokenUnit
      THEN [r EXCEPT !.tokens = r.tokens - TokenUnit]
      ELSE r

\* consume that returns true without taking the cost off
ConsumeState_NoDebit(t, b, cost, clock) == RefillState(t, b, clock)

\* consume: the bucket after the call
ConsumeState(t, b, cost, clock) ==
  LET r == RefillState(t, b, clock)
  IN  IF r.tokens >= cost * TokenUnit
      THEN [r EXCEPT !.tokens = r.tokens - cost * TokenUnit]
      ELSE r

\* consume that leaves the saving to refill
ConsumeStorage_RefillOnly(t, b, cost, clock, store) ==
  IF RefillSaves(b, clock)
  THEN [store EXCEPT ![storageKey(t)] = SavedItem(RefillState(t, b, clock))]
  ELSE store

\* consume that saves the bucket as refill left it, before the debit
ConsumeStorage_BeforeDebit(t, b, cost, clock, store) ==
  IF RefillSaves(b, clock) \/ ConsumeAllowed(t, b, cost, clock)
  THEN [store EXCEPT ![storageKey(t)] = SavedItem(RefillState(t, b, clock))]
  ELSE store

\* consume: localStorage after the call
ConsumeStorage(t, b, cost, clock, store) ==
  IF RefillSaves(b, clock) \/ ConsumeAllowed(t, b, cost, clock)
  THEN [store EXCEPT ![storageKey(t)] = SavedItem(ConsumeState(t, b, cost, clock))]
  ELSE store

CeilInvRate(t) ==
  (TokenUnit + refillRatePerSecond(t) - 1) \div refillRatePerSecond(t)

(* ------------------------------ withRetry ------------------------------ *)
\* An error is {status, message}: status 0 stands for an error object without
\* a status, hasMessage = FALSE for one without a message; a message is its
\* sequence of characters.
Overloaded == <<"o", "v", "e", "r", "l", "o", "a", "d", "e", "d">>

Err(status, hasMessage, message) ==
  [ok |-> FALSE, status |-> status, hasMessage |-> hasMessage, message |-> message]

Err503 == Err(503, TRUE, <<"d", "o", "w", "n">>)
Err500 == Err(500, FALSE, <<>>)
ErrOverloaded == Err(0, TRUE, <<"i", "s", " ">> \o Overloaded \o <<".">>)
ErrCapital == Err(429, TRUE, <<"O">> \o Tail(Overloaded))
ErrBadRequest == Err(400, TRUE, <<"b", "a", "d">>)

Errors == {Err503, Err500, ErrOverloaded, ErrCapital, ErrBadRequest}

\* what one invocation of the wrapped operation can do: resolve or reject
Resolved == [ok |-> TRUE, value |-> "text"]

Outcomes == {Resolved} \cup Errors

\* the answers of the model service to a workflow's call: a reply, a
\* retryable error with and without a message, an error that is not retried
Answers == {Resolved, Err503, Err500, ErrBadRequest}

\* String.prototype.includes
Includes(str, sub) ==
  \E i \in 0..(Len(str) - Len(sub)) : SubSeq(str, i + 1, i + Len(sub)) = sub

\* a classification that matches the marker whatever its first letter's case
IsRetryable_LooseMatch(error) ==
  \/ error.status = 503
  \/ error.status = 500
  \/ error.hasMessage /\ Includes(error.message, Tail(Overloaded))

\* error.status === 503 || error.status === 500 || error.message?.includes('overloaded')
IsRetryable(error) ==
  \/ error.status = 503
  \/ error.status = 500
  \/ error.hasMessage /\ Includes(error.message, Overloaded)

\* a backoff that adds the first delay again instead of doubling
NextDelay_Linear(d, first) == d + first

\* the delay handed to the recursive call
NextDelay(d, first) == d * 2

\* a rethrow that wraps the error, keeping the message only
Thrown_Wrapped(error) == Err(0, error.hasMessage, error.message)

\* throw error
Thrown(error) == error

NoResult == [pending |-> TRUE]

\* withRetry(fn, maxRetries, initialDelay) is entered
RetryEntry(maxRetries, initialDelay) ==
  /\ args' = [maxRetries |-> maxRetries, initialDelay |-> initialDelay]
  /\ retries' = maxRetries
  /\ delay' = initialDelay
  /\ attempts' = 0
  /\ slept' = 0
  /\ rpc' = "call"
  /\ result' = NoResult

\* return await fn() and the catch block, for an fn() that resolves or
\* rejects with outcome o
Outcome(o) ==
  IF o.ok
  THEN /\ result' = o
       /\ rpc' = "done"
  ELSE IF retries > 0 /\ IsRetryable(o)
  THEN /\ result' = result
       /\ rpc' = "sleep"
  ELSE /\ result' = Thrown(o)
       /\ rpc' = "done"

\* try { return await fn() } catch (error) { ... }: one invocation of the
\* operation, which resolves or rejects with outcome o
Attempt(o) ==
  /\ rpc = "call"
  /\ attempts' = attempts + 1
  /\ Outcome(o)
  /\ UNCHANGED <<fn, args, retries, delay, slept>>

\* fn() is invoked and withRetry awaits its promise
Invoke ==
  /\ rpc = "call"
  /\ attempts' = attempts + 1
  /\ rpc' = "flight"
  /\ UNCHANGED <<fn, args, retries, delay, slept, result>>

\* the awaited promise settles with outcome o
Settle(o) ==
  /\ rpc = "flight"
  /\ Outcome(o)
  /\ UNCHANGED <<fn, args, retries, delay, slept, attempts>>

\* a recursive call that hands on the retries it was given
Backoff_NoCountdown ==
  /\ rpc = "sleep"
  /\ slept' = slept + delay
  /\ retries' = retries
  /\ delay' = NextDelay(delay, args.initialDelay)
  /\ rpc' = "call"
  /\ UNCHANGED <<fn, args, attempts, result>>

\* the setTimeout of the catch block fires and withRetry calls itself
Backoff ==
  /\ rpc = "sleep"
  /\ slept' = slept + delay
  /\ retries' = retries - 1
  /\ delay' = NextDelay(delay, args.initialDelay)
  /\ rpc' = "call"
  /\ UNCHANGED <<fn, args, attempts, result>>

(* ------------------------ router and workflows -------------------------- *)
Flash == "gemini-2.5-flash"
Pro == "gemini-3-pro-preview"
Models == {Flash, Pro}

\* a router that gives reasoning mode the other limiter
getModelConfig_OtherLimiter(mode) ==
  CASE mode = "smart" -> [model |-> Pro, limiter |-> "pro", config |-> FALSE]
    [] mode = "reasoning" -> [model |-> Pro, limiter |-> "flash", config |-> TRUE]
    [] OTHER -> [model |-> Flash, limiter |-> "flash", config |-> FALSE]

\* a router that gives smart mode the light limiter
getModelConfig_LightLimiter(mode) ==
  CASE mode = "smart" -> [model |-> Pro, limiter |-> "flash", config |-> FALSE]
    [] mode = "reasoning" -> [model |-> Pro, limiter |-> "pro", config |-> TRUE]
    [] OTHER -> [model |-> Flash, limiter |-> "flash", config |-> FALSE]

\* getModelConfig(mode): config is whether a thinkingConfig is passed
getModelConfig(mode) ==
  CASE mode = "smart" -> [model |-> Pro, limiter |-> "pro", config |-> FALSE]
    [] mode = "reasoning" -> [model |-> Pro, limiter |-> "pro", config |-> TRUE]
    [] OTHER -> [model |-> Flash, limiter |-> "flash", config |-> FALSE]

(* the template store, as far as the usage counter goes *)
SEED_DATA == <<[id |-> "seed-1", usageCount |-> 5],
               [id |-> "seed-2", usageCount |-> 12]>>

TemplateIds == {SEED_DATA[k].id : k \in DOMAIN SEED_DATA}

\* the templates handleRun can be given: the id, the two algorithm flags and
\* the mode of modelPreference, "unset" when the template has none
Prompts == [id : TemplateIds, stepBack : BOOLEAN, chainOfDensity : BOOLEAN,
            mode : {"unset", "fast", "smart", "reasoning"}]

\* templates.findIndex((t) => t.id === id), counted from 1; 0 when not found
FindIndex(ts, id) ==
  IF \E k \in DOMAIN ts : ts[k].id = id
  THEN CHOOSE k \in DOMAIN ts : ts[k].id = id /\ \A j \in 1..(k - 1) : ts[j].id # id
  ELSE 0

\* an increment that counts a use as an edit
IncrementUsage_Touch(ts, id) ==
  LET index == FindIndex(ts, id)
  IN  IF index >= 1
      THEN [ts EXCEPT ![index] = [@ EXCEPT !.usageCount = @ + 1, !.lastModified = 1]]
      ELSE ts

\* storageService.incrementUsage(id): the stored array afterwards
IncrementUsage(ts, id) ==
  LET index == FindIndex(ts, id)
  IN  IF index >= 1
      THEN [ts EXCEPT ![index] = [@ EXCEPT !.usageCount = @ + 1]]
      ELSE ts

\* prompt.modelPreference?.mode || 'fast'
ModeOf(p) == IF p.mode = "unset" THEN "fast" ELSE p.mode

\* a caller that looks at the chain-of-density flag first
Workflow_DensityFirst(p) ==
  IF p.chainOfDensity THEN "executeChainOfDensity"
  ELSE IF p.stepBack THEN "executeStepBackPrompt"
  ELSE "executeStandardPrompt"

\* the function handleRun calls for the template
Workflow(p) ==
  IF p.stepBack THEN "executeStepBackPrompt"
  ELSE IF p.chainOfDensity THEN "executeChainOfDensity"
  ELSE "executeStandardPrompt"

ITERATIONS == 3

\* a chain of density that runs one iteration less
CallsOf_ShortLoop(w) ==
  CASE w = "executeStandardPrompt" -> 1
    [] w = "executeStepBackPrompt" -> 2
    [] OTHER -> ITERATIONS - 1

\* the number of generateContent calls the function makes when none fails
CallsOf(w) ==
  CASE w = "executeStandardPrompt" -> 1
    [] w = "executeStepBackPrompt" -> 2
    [] OTHER -> ITERATIONS

NoText == [empty |-> TRUE]

\* a step-back whose first call goes to the configured model as well
ModelOfCall_Configured(w, mode, k) == getModelConfig(mode).model

\* the model the function sends its k-th call to
ModelOfCall(w, mode, k) ==
  IF w = "executeStepBackPrompt" /\ k = 1 THEN Flash ELSE getModelConfig(mode).model

\* a workflow whose later requests repeat the first one
ContextOfCall_Original(w, k, prev) == NoText

\* what a workflow puts into the request of its k-th call besides the
\* original prompt: the text of the call before it
ContextOfCall(w, k, prev) == IF k = 1 THEN NoText ELSE prev

\* workflows that all pass the router's config on
ConfigOfCall_Always(w, mode) == getModelConfig(mode).config

\* the config the function passes with a call
ConfigOfCall(w, mode) ==
  w = "executeStandardPrompt" /\ getModelConfig(mode).config

\* response.text of the k-th call of a workflow: the k-th answer, which
\* is length characters long
Reply(k) == [reply |-> k, length |-> 30 * k]

\* currentResponse.substring(0, 50) cuts at this many characters
PreviewLen == 50

\* a trace that records the whole output
Preview_Whole(text) == text

\* currentResponse.substring(0, 50): the first characters of the text
Preview(text) == [reply |-> text.reply, length |-> Min(text.length, PreviewLen)]

\* steps.push(...) before the k-th call of a workflow
StepsBefore(w, k) ==
  CASE w = "executeStepBackPrompt" /\ k = 1 -> <<[entry |-> "Generating Step-Back abstraction..."]>>
    [] w = "executeChainOfDensity" -> <<[entry |-> "Iteration", i |-> k]>>
    [] OTHER -> <<>>

\* steps.push(...) after the k-th call of a workflow has returned
StepsAfter(w, k) ==
  CASE w = "executeStepBackPrompt" /\ k = 1 ->
         <<[entry |-> "Abstraction", text |-> Reply(k)],
           [entry |-> "Executing final grounded prompt..."]>>
    [] w = "executeChainOfDensity" -> <<[entry |-> "Result", i |-> k, preview |-> Preview(Reply(k))]>>
    [] OTHER -> <<>>

NoError == [set |-> FALSE]

\* no result is shown
NoRes == [text |-> NoText, error |-> NoError, metadata |-> FALSE, pending |-> TRUE]

\* the error field of the result returned when consume() is refused
RateLimitError(w, mode) ==
  IF w = "executeStandardPrompt"
  THEN [set |-> TRUE, kind |-> "rate limit", mode |-> mode]
  ELSE [set |-> TRUE, kind |-> "rate limit"]

\* a workflow that goes on to its first call after a refused consume()
Refused_Ignored(allowed) == FALSE

\* if (!canProceed) return ...
Refused(allowed) == ~allowed

\* the error field of the result returned from a catch block
CaughtError(w, error) ==
  IF error.hasMessage /\ error.message # <<>>
  THEN [set |-> TRUE, kind |-> "message", message |-> error.message]
  ELSE IF w = "executeStandardPrompt"
  THEN [set |-> TRUE, kind |-> "unknown"]
  ELSE NoError

\* if (!res.error) storageService.incrementUsage(prompt.id): the stored
\* array after handleRun has received result r
UsageAfter(ts, id, r) == IF ~r.error.set THEN IncrementUsage(ts, id) ELSE ts

\* requests per minute the two models allow (README, and the limiters' comments)
Window == 60

RpmLimit(m) == IF m = Flash THEN 15 ELSE 2

\* invoked[m] is the number of calls the latest run has sent to model m,
\* MaxCounted standing for that many or more; inflight is the number of its
\* calls that have been sent and not yet answered
Counted(n) == Min(n, MaxCounted)

(* ---------------------- storageService: the store ---------------------- *)
\* A string is its sequence of characters.
Upper == <<"A", "B", "C", "D", "E", "F", "G", "H", "I", "J", "K", "L", "M",
           "N", "O", "P", "Q", "R", "S", "T", "U", "V", "W", "X", "Y", "Z">>
Lower == <<"a", "b", "c", "d", "e", "f", "g", "h", "i", "j", "k", "l", "m",
           "n", "o", "p", "q", "r", "s", "t", "u", "v", "w", "x", "y", "z">>

\* String.prototype.toLowerCase
ToLowerCase(str) ==
  [i \in DOMAIN str |->
     IF \E j \in DOMAIN Upper : Upper[j] = str[i]
     THEN Lower[CHOOSE j \in DOMAIN Upper : Upper[j] = str[i]]
     ELSE str[i]]

\* a template without an embedding, a search without a query embedding
NoEmbedding == [vector |-> FALSE]

Embedding(values) == [vector |-> TRUE, values |-> values]

\* the fields of SEED_DATA that search reads; lastModified is the reading of
\* Date.now() when the module was loaded
SeedTexts ==
  <<[name |-> <<"R", "u", "s", "t", " ", "C", "o", "d", "e", " ",
                "R", "e", "f", "a", "c", "t", "o", "r">>,
     description |-> <<"R", "e", "f", "a", "c", "t", "o", "r", "s", " ",
                       "R", "u", "s", "t", " ", "c", "o", "d", "e", " ",
                       "f", "o", "r", " ", "i", "d", "i", "o", "m", "a", "t", "i", "c", " ",
                       "p", "a", "t", "t", "e", "r", "n", "s", " ", "a", "n", "d", " ",
                       "b", "o", "r", "r", "o", "w", " ", "c", "h", "e", "c", "k", "e", "r", " ",
                       "s", "a", "f", "e", "t", "y", ".">>,
     tags |-> << <<"c", "o", "d", "i", "n", "g">>, <<"r", "u", "s", "t">>,
                 <<"r", "e", "f", "a", "c", "t", "o", "r">> >>,
     embedding |-> NoEmbedding, lastModified |-> 0],
    [name |-> <<"E", "m", "a", "i", "l", " ", "S", "u", "m", "m", "a", "r", "i", "z", "e", "r",
                " ", "(", "D", "e", "n", "s", "e", ")">>,
     description |-> <<"C", "r", "e", "a", "t", "e", "s", " ", "a", " ",
                       "h", "i", "g", "h", "-", "d", "e", "n", "s", "i", "t", "y", " ",
                       "s", "u", "m", "m", "a", "r", "y", " ", "o", "f", " ",
                       "l", "o", "n", "g", " ", "e", "m", "a", "i", "l", " ",
                       "t", "h", "r", "e", "a", "d", "s", ".">>,
     tags |-> << <<"p", "r", "o", "d", "u", "c", "t", "i", "v", "i", "t", "y">>,
                 <<"e", "m", "a", "i", "l">>, <<"s", "u", "m", "m", "a", "r", "y">> >>,
     embedding |-> NoEmbedding, lastModified |-> 0]>>

\* SEED_DATA with the fields search reads
SeedTemplates == [k \in DOMAIN SEED_DATA |-> SEED_DATA[k] @@ SeedTexts[k]]

\* storageService.getAll() once the item under STORAGE_KEY is there: the
\* stored array.  The first getAll, which the library view runs when it is
\* mounted, stores SEED_DATA; the store of the model has been through it.
GetAll(stored) == stored

\* a save that stores the usage count it is given
SaveState_TakeGiven(ts, template) ==
  LET index == FindIndex(ts, template.id)
  IN  IF index >= 1
      THEN [ts EXCEPT ![index] =
              [template EXCEPT !.embedding = IF ~template.embedding.vector
                                                 /\ ts[index].embedding.vector
                                             THEN ts[index].embedding ELSE @]]
      ELSE Append(ts, [template EXCEPT !.usageCount = 0])

\* a save that pushes the update whether its id is stored or not
SaveState_Append(ts, template) == Append(ts, [template EXCEPT !.usageCount = 0])

\* a save that stores the update as it comes, without looking at the
\* embedding it replaces
SaveState_DropEmbedding(ts, template) ==
  LET index == FindIndex(ts, template.id)
  IN  IF index >= 1
      THEN [ts EXCEPT ![index] = [template EXCEPT !.usageCount = ts[index].usageCount]]
      ELSE Append(ts, [template EXCEPT !.usageCount = 0])

\* storageService.save(template): the stored array afterwards
SaveState(ts, template) ==
  LET index == FindIndex(ts, template.id)
  IN  IF index >= 1
      THEN [ts EXCEPT ![index] =
              [template EXCEPT !.embedding = IF ~template.embedding.vector
                                                 /\ ts[index].embedding.vector
                                             THEN ts[index].embedding ELSE @,
                               !.usageCount = ts[index].usageCount]]
      ELSE Append(ts, [template EXCEPT !.usageCount = 0])

\* storageService.delete(id): the stored array afterwards
DeleteState(ts, id) == SelectSeq(ts, LAMBDA t : t.id # id)

RECURSIVE ImportState(_, _)
\* json.forEach(t => storageService.save(t)): the stored array afterwards
ImportState(ts, json) ==
  IF json = <<>> THEN ts
  ELSE ImportState(SaveState(ts, Head(json)), Tail(json))

(* ---------------------- storageService.search -------------------------- *)
\* DAY_MS, here in seconds
DAY == 86400

\* A score is a JavaScript number: NaN, or a value held in units of
\* 1/ScoreUnit point, so that the recency term of a template modified a whole
\* number of seconds ago is a whole number of units.
ScoreUnit == DAY

NaN == [nan |-> TRUE]
Num(v) == [nan |-> FALSE, v |-> v]

\* a + b on numbers
Plus(a, b) == IF a.nan \/ b.nan THEN NaN ELSE Num(a.v + b.v)

\* a > b on numbers: false when either is NaN
Greater(a, b) == ~a.nan /\ ~b.nan /\ a.v > b.v

\* Math.sqrt, for the perfect squares the embeddings of the model have
Sqrt(n) == CHOOSE r \in 0..n : r * r = n

RECURSIVE Dot(_, _)
\* the sum of vecA[i] * vecB[i] over the indices of vecA
Dot(vecA, vecB) ==
  IF vecA = <<>> THEN 0
  ELSE Head(vecA) * Head(vecB) + Dot(Tail(vecA), Tail(vecB))

\* a cosine is held in units of 1/SimUnit
SimUnit == 25

\* a similarity that does not compare the lengths
cosineSimilarity_NoLengthTest(vecA, vecB) ==
  LET short == IF Len(vecA) <= Len(vecB) THEN vecA ELSE vecB
      n == Len(short)
      a == SubSeq(vecA, 1, n)
      b == SubSeq(vecB, 1, n)
      norms == Sqrt(Dot(a, a)) * Sqrt(Dot(b, b))
  IN  IF norms = 0 THEN NaN ELSE Num((Dot(a, b) * SimUnit) \div norms)

\* cosineSimilarity(vecA, vecB): 0 for different lengths, otherwise
\* dotProduct / (Math.sqrt(normA) * Math.sqrt(normB)), which is 0 / 0 = NaN
\* when a norm is zero
cosineSimilarity(vecA, vecB) ==
  IF Len(vecA) # Len(vecB) THEN Num(0)
  ELSE LET norms == Sqrt(Dot(vecA, vecA)) * Sqrt(Dot(vecB, vecB))
       IN  IF norms = 0 THEN NaN
           ELSE Num((Dot(vecA, vecB) * SimUnit) \div norms)

\* a keyword score that gives the name 5
KeywordScore_LightName(p, lowerTerm) ==
  (IF Includes(ToLowerCase(p.name), lowerTerm) THEN 5 ELSE 0)
  + (IF Includes(ToLowerCase(p.description), lowerTerm) THEN 5 ELSE 0)
  + (IF \E k \in DOMAIN p.tags : Includes(ToLowerCase(p.tags[k]), lowerTerm)
     THEN 3 ELSE 0)

\* the keyword score: 10 for the name, 5 for the description, 3 for a tag
KeywordScore(p, lowerTerm) ==
  (IF Includes(ToLowerCase(p.name), lowerTerm) THEN 10 ELSE 0)
  + (IF Includes(ToLowerCase(p.description), lowerTerm) THEN 5 ELSE 0)
  + (IF \E k \in DOMAIN p.tags : Includes(ToLowerCase(p.tags[k]), lowerTerm)
     THEN 3 ELSE 0)

\* sim * 25 when both embeddings are there, in score units
VectorScore(p, queryEmbedding) ==
  IF queryEmbedding.vector /\ p.embedding.vector
  THEN LET sim == cosineSimilarity(queryEmbedding.values, p.embedding.values)
       IN  IF sim.nan THEN NaN ELSE Num((sim.v * 25 * ScoreUnit) \div SimUnit)
  ELSE Num(0)

\* Math.max(0, 5 - daysSinceMod), in score units
RecencyBoost(p, clock) ==
  LET boost == 5 * ScoreUnit - (clock - p.lastModified)
  IN  IF boost > 0 THEN boost ELSE 0

\* Math.log10(n) * 5 in score units, rounded down, for the usage counts
\* that occur
Log10x5(n) ==
  CASE n = 1 -> 0
    [] n = 2 -> 130044
    [] n = 6 -> 336161
    [] n = 7 -> 365082
    [] n = 10 -> 432000
    [] n = 13 -> 481223
    [] n = 14 -> 495127
    [] n = 39 -> 687339
    [] n = 40 -> 692089
    [] n = 100 -> 864000

\* Math.log10((p.usageCount || 0) + 1) * 5
UsageBoost(p) == Log10x5(p.usageCount + 1)

\* the score search gives template p
Score(p, lowerTerm, queryEmbedding, clock) ==
  Plus(Plus(Plus(Num(KeywordScore(p, lowerTerm) * ScoreUnit),
                 VectorScore(p, queryEmbedding)),
            Num(RecencyBoost(p, clock))),
       Num(UsageBoost(p)))

\* the filter threshold 0.5, in score units
Threshold == ScoreUnit \div 2

\* a filter that asks for more than the weight of a description match
Kept_Strict(scored) == Greater(scored.score, Num(5 * ScoreUnit))

\* .filter(p => p.score > 0.5)
Kept(scored) == Greater(scored.score, Num(Threshold))

RECURSIVE Insert(_, _)
\* the sorted list with x put behind the entries that do not score less
Insert(sorted, x) ==
  IF sorted = <<>> THEN <<x>>
  ELSE IF Greater(x.score, Head(sorted).score)
       THEN <<x>> \o sorted
       ELSE <<Head(sorted)>> \o Insert(Tail(sorted), x)

RECURSIVE SortByScore(_)
\* a search that leaves its results in store order
SortByScore_StoreOrder(list) == list

\* .sort((a, b) => b.score - a.score): stable, on scores that are no NaN
SortByScore(list) ==
  IF list = <<>> THEN <<>>
  ELSE Insert(SortByScore(SubSeq(list, 1, Len(list) - 1)), list[Len(list)])

\* a search that scores and filters an empty query like any other
IsEmptyQuery_Never(query) == FALSE

\* !query
IsEmptyQuery(query) == query = <<>>

\* storageService.search(query, queryEmbedding) over the stored item, at
\* clock reading clock
search(stored, query, queryEmbedding, clock) ==
  LET all == GetAll(stored)
      lowerTerm == ToLowerCase(query)
      scored == [k \in DOMAIN all |->
                   all[k] @@ [score |-> Score(all[k], lowerTerm, queryEmbedding, clock)]]
  IN  IF IsEmptyQuery(query) THEN all
      ELSE SortByScore(SelectSeq(scored, Kept))

(* --------------------------- history of calls -------------------------- *)
NoOp == [kind |-> "none"]

\* Bookkeeping of the consume() calls of a bucket that started full, kept
\* while every call so far had the default cost 1 and at most maxTokens + 1
\* of them succeeded (unitOnly): okCount counts the successful calls, cthAt
\* is the clock reading at the maxTokens-th one, cthDrained says that it
\* left the bucket empty and refilled up to that reading, lateAfter the seconds (cut to 0..ceil(1/rate)) from it to the next
\* successful call.
Clamp(x, lo, hi) == IF x < lo THEN lo ELSE IF x > hi THEN hi ELSE x

HistAfterConsume(t, cost, ok, after) ==
  IF ~unitOnly
  THEN UNCHANGED histVars
  ELSE IF cost # 1 \/ (ok /\ okCount = maxTokens(t) + 1)
  THEN /\ unitOnly' = FALSE
       /\ okCount' = 0
       /\ cthAt' = -1
       /\ cthDrained' = FALSE
       /\ lateAfter' = -1
  ELSE /\ unitOnly' = TRUE
       /\ okCount' = IF ok THEN okCount + 1 ELSE okCount
       /\ cthAt' = IF ok /\ okCount + 1 = maxTokens(t) THEN now ELSE cthAt
       /\ cthDrained' = IF ok /\ okCount + 1 = maxTokens(t)
                       THEN after.tokens = 0 /\ after.lastRefill = now
                       ELSE cthDrained
       /\ lateAfter' = IF ok /\ okCount = maxTokens(t)
                       THEN Clamp(now - cthAt, 0, CeilInvRate(t)) ELSE lateAfter

(* ------------------------------- actions ------------------------------- *)
\* the module is loaded with nothing in localStorage: both buckets are full
InitLimiters ==
  /\ now = 0
  /\ ticks = 0
  /\ localStorage = [k \in StorageKeys |-> NoItem]
  /\ tokens = [t \in Tiers |-> Construct(t, NoItem, 0).tokens]
  /\ lastRefill = [t \in Tiers |-> Construct(t, NoItem, 0).lastRefill]
  /\ constructed = [t \in Tiers |-> "ok"]
  /\ granted = 0
  /\ op = NoOp
  /\ okCount = 0
  /\ unitOnly = TRUE
  /\ cthAt = -1
  /\ cthDrained = FALSE
  /\ lateAfter = -1

\* no withRetry call is on the stack
InitRetryIdle ==
  /\ fn = <<>>
  /\ args = [maxRetries |-> 0, initialDelay |-> 0]
  /\ retries = 0
  /\ delay = 0
  /\ attempts = 0
  /\ slept = 0
  /\ rpc = "idle"
  /\ result = NoResult

\* the execution view is open on the second stored template; no workflow
\* has been run
InitExecutionIdle ==
  /\ isExecuting = FALSE
  /\ prompt = [id |-> SEED_DATA[2].id, stepBack |-> FALSE, chainOfDensity |-> FALSE,
               mode |-> "unset"]
  /\ step = 0
  /\ sent = <<>>
  /\ steps = <<>>
  /\ currentResponse = NoText
  /\ res = NoRes
  /\ start = 0
  /\ invoked = [m \in Models |-> 0]
  /\ inflight = 0
  /\ failed = FALSE
  /\ runs = 0

\* the library view is not open
InitViewIdle ==
  /\ searchTerm = <<>>
  /\ prompts = <<>>
  /\ isSearching = FALSE
  /\ handler = [set |-> FALSE]
  /\ pending = {}
  /\ apiKey = FALSE
  /\ issued = 0
  /\ peakUsage = <<>>

\* the store holds the seed data, the execution view is idle and the
\* library view is not open
InitFlowIdle ==
  /\ InitExecutionIdle
  /\ templates = SEED_DATA
  /\ InitViewIdle

\* a caller holds one of the two limiters
InitBucket ==
  /\ InitLimiters
  /\ peer = Construct("flash", NoItem, 0)
  /\ InitRetryIdle
  /\ InitFlowIdle
  /\ limiter \in Tiers

\* the wall clock advances
Tick(d) ==
  /\ ticks < MaxTicks
  /\ ticks' = ticks + 1
  /\ now' = now + d
  /\ op' = [kind |-> "clock"]
  /\ UNCHANGED <<bucketVars, limiter, viewVars, histVars, retryVars, flowVars>>

\* the wall clock is set back
ClockBack(d) ==
  /\ ticks < MaxTicks
  /\ now - d >= 0
  /\ ticks' = ticks + 1
  /\ now' = now - d
  /\ op' = [kind |-> "clock"]
  /\ UNCHANGED <<bucketVars, limiter, viewVars, histVars, retryVars, flowVars>>

\* limiter.consume(cost)
Consume(cost) ==
  LET t == limiter
      b == Bucket(t)
      a == ConsumeState(t, b, cost, now)
      ok == ConsumeAllowed(t, b, cost, now)
  IN  /\ tokens' = [tokens EXCEPT ![t] = a.tokens]
      /\ lastRefill' = [lastRefill EXCEPT ![t] = a.lastRefill]
      /\ localStorage' = ConsumeStorage(t, b, cost, now, localStorage)
      /\ op' = [kind |-> "consume", cost |-> cost, ret |-> ok]
      /\ HistAfterConsume(t, cost, ok, a)
      /\ UNCHANGED <<now, ticks, constructed, peer, granted, limiter, viewVars, retryVars, flowVars>>

\* page reload: the module is evaluated again and both buckets are rebuilt
Reload ==
  /\ tokens' = [t \in Tiers |-> Construct(t, localStorage[storageKey(t)], now).tokens]
  /\ lastRefill' = [t \in Tiers |-> Construct(t, localStorage[storageKey(t)], now).lastRefill]
  /\ op' = [kind |-> "reload"]
  /\ UNCHANGED <<now, ticks, localStorage, constructed, peer, granted, limiter, viewVars,
                 histVars, retryVars, flowVars>>

NextBucket ==
  \/ \E d \in TickSteps : Tick(d)
  \/ \E d \in BackSteps : ClockBack(d)
  \/ \E cost \in 1..MaxCost : Consume(cost)
  \/ Reload

SpecBucket == InitBucket /\ [][NextBucket]_vars

(* the module is evaluated over whatever localStorage holds *)
\* what can be found under a limiter's key: nothing, a record saved by a
\* bucket (here after a consume at time 0, or a partly refilled one), or a
\* string written by something else
StoredItems ==
  {NoItem, EmptyItem, Garbled, NullItem,
   SavedItem([tokens |-> TokenUnit, lastRefill |-> 0]),
   SavedItem([tokens |-> TokenUnit \div 2, lastRefill |-> 0])}

InitLoad ==
  /\ now = 0
  /\ ticks = 0
  /\ localStorage \in [StorageKeys -> StoredItems]
  /\ tokens = [t \in Tiers |-> 0]
  /\ lastRefill = [t \in Tiers |-> 0]
  /\ constructed = [t \in Tiers |-> "none"]
  /\ peer = Construct("flash", NoItem, 0)
  /\ granted = 0
  /\ op = NoOp
  /\ okCount = 0
  /\ unitOnly = FALSE
  /\ cthAt = -1
  /\ cthDrained = FALSE
  /\ lateAfter = -1
  /\ InitRetryIdle
  /\ InitFlowIdle
  /\ limiter \in Tiers

\* const flashLimiter = new TokenBucket(...); const proLimiter = new
\* TokenBucket(...): a constructor that throws ends the evaluation
LoadModule ==
  LET item(t) == localStorage[storageKey(t)]
      done == [t \in Tiers |->
                 IF ConstructThrows(item("flash"))
                 THEN IF t = "flash" THEN "threw" ELSE "none"
                 ELSE IF ConstructThrows(item("pro"))
                 THEN IF t = "pro" THEN "threw" ELSE "ok"
                 ELSE "ok"]
  IN  /\ constructed' = done
      /\ tokens' = [t \in Tiers |-> IF done[t] = "ok"
                                     THEN Construct(t, item(t), now).tokens ELSE 0]
      /\ lastRefill' = [t \in Tiers |-> IF done[t] = "ok"
                                         THEN Construct(t, item(t), now).lastRefill ELSE 0]
      /\ op' = [kind |-> "load"]
      /\ UNCHANGED <<now, ticks, localStorage, peer, granted, limiter, viewVars,
                     histVars, retryVars, flowVars>>

\* limiter.consume(cost) on a limiter that was constructed
LoadedConsume(cost) ==
  /\ constructed[limiter] = "ok"
  /\ Consume(cost)

NextLoad ==
  \/ LoadModule
  \/ \E d \in TickSteps : Tick(d)
  \/ \E cost \in 1..MaxCost : LoadedConsume(cost)

SpecLoad == InitLoad /\ [][NextLoad]_vars

(* two pages of the application open at once: each has evaluated the module
   and holds its own bucket object of the heavy tier, over the same
   localStorage *)
InitTabs ==
  /\ InitLimiters
  /\ InitRetryIdle
  /\ InitFlowIdle
  /\ limiter = "pro"
  /\ peer = Construct(limiter, NoItem, 0)

\* the bucket object of page i
TabBucket(i) == IF i = 1 THEN Bucket(limiter) ELSE peer

\* limiter.consume(cost) in page i; granted sums the costs of the calls that
\* returned true
TabConsume(i, cost) ==
  LET t == limiter
      b == TabBucket(i)
      a == ConsumeState(t, b, cost, now)
      ok == ConsumeAllowed(t, b, cost, now)
  IN  /\ IF i = 1
         THEN /\ tokens' = [tokens EXCEPT ![t] = a.tokens]
              /\ lastRefill' = [lastRefill EXCEPT ![t] = a.lastRefill]
              /\ peer' = peer
         ELSE /\ peer' = a
              /\ UNCHANGED <<tokens, lastRefill>>
      /\ localStorage' = ConsumeStorage(t, b, cost, now, localStorage)
      /\ granted' = IF ok THEN granted + cost ELSE granted
      /\ op' = [kind |-> "consume", cost |-> cost, ret |-> ok, tab |-> i]
      /\ UNCHANGED <<now, ticks, constructed, limiter, viewVars, histVars, retryVars, flowVars>>

\* page i is reloaded: its bucket is rebuilt from the saved record
TabReload(i) ==
  LET t == limiter
      b == Construct(t, localStorage[storageKey(t)], now)
  IN  /\ IF i = 1
         THEN /\ tokens' = [tokens EXCEPT ![t] = b.tokens]
              /\ lastRefill' = [lastRefill EXCEPT ![t] = b.lastRefill]
              /\ peer' = peer
         ELSE /\ peer' = b
              /\ UNCHANGED <<tokens, lastRefill>>
      /\ op' = [kind |-> "reload", tab |-> i]
      /\ UNCHANGED <<now, ticks, localStorage, constructed, granted, limiter, viewVars,
                     histVars, retryVars, flowVars>>

NextTabs ==
  \/ \E i \in 1..2, cost \in 1..MaxCost : TabConsume(i, cost)
  \/ \E i \in 1..2 : TabReload(i)
  \/ \E d \in TickSteps : Tick(d)

SpecTabs == InitTabs /\ [][NextTabs]_vars

(* withRetry alone: the operation is a script of outcomes, one per invocation *)
Scripts == [1..(MaxRetries + 1) -> Outcomes]

InitRetry ==
  /\ InitLimiters
  /\ peer = Construct("flash", NoItem, 0)
  /\ InitFlowIdle
  /\ limiter = "flash"
  /\ fn \in Scripts
  /\ \E maxRetries \in 0..MaxRetries, initialDelay \in InitialDelays :
        /\ args = [maxRetries |-> maxRetries, initialDelay |-> initialDelay]
        /\ retries = maxRetries
        /\ delay = initialDelay
  /\ attempts = 0
  /\ slept = 0
  /\ rpc = "call"
  /\ result = NoResult

RetryAttempt ==
  /\ Attempt(fn[attempts + 1])
  /\ UNCHANGED <<clockVars, bucketVars, limiter, viewVars, op, histVars, flowVars>>

RetryBackoff ==
  /\ Backoff
  /\ UNCHANGED <<clockVars, bucketVars, limiter, viewVars, op, histVars, flowVars>>

NextRetry == RetryAttempt \/ RetryBackoff

SpecRetry == InitRetry /\ [][NextRetry]_vars

\* the event loop runs a settled promise's continuation and a timer that
\* is due: a step of withRetry that can be taken is taken
SpecRetryFair == SpecRetry /\ WF_vars(NextRetry)

(* the execution view: one workflow at a time, started by the Run button *)
Init ==
  /\ InitLimiters
  /\ peer = Construct("flash", NoItem, 0)
  /\ InitRetryIdle
  /\ InitFlowIdle
  /\ limiter = "flash"

\* handleRun up to the await of limiter.consume(), and the return that
\* follows a refused consume; p is the view's template as last edited
Run(p) ==
  LET w == Workflow(p)
      mode == ModeOf(p)
      t == getModelConfig(mode).limiter
      b == Bucket(t)
      a == ConsumeState(t, b, 1, now)
      allowed == ConsumeAllowed(t, b, 1, now)
  IN  /\ ~isExecuting
      /\ p.id = prompt.id
      /\ runs < MaxRuns
      /\ runs' = runs + 1
      /\ invoked' = [m \in Models |-> 0]
      /\ inflight' = 0
      /\ failed' = FALSE
      /\ prompt' = p
      /\ limiter' = t
      /\ tokens' = [tokens EXCEPT ![t] = a.tokens]
      /\ lastRefill' = [lastRefill EXCEPT ![t] = a.lastRefill]
      /\ localStorage' = ConsumeStorage(t, b, 1, now, localStorage)
      /\ op' = [kind |-> "run", cost |-> 1, ret |-> allowed]
      /\ sent' = <<>>
      /\ currentResponse' = NoText
      /\ steps' = IF Refused(allowed) THEN <<>> ELSE StepsBefore(w, 1)
      /\ IF Refused(allowed)
         THEN /\ isExecuting' = FALSE
              /\ step' = 0
              /\ res' = [text |-> NoText, error |-> RateLimitError(w, mode),
                         metadata |-> FALSE]
              /\ fn' = fn /\ args' = [maxRetries |-> 0, initialDelay |-> 0]
              /\ retries' = 0 /\ delay' = 0 /\ attempts' = 0 /\ slept' = 0
              /\ rpc' = "idle" /\ result' = NoResult
         ELSE /\ isExecuting' = TRUE
              /\ step' = 1
              /\ res' = NoRes
              /\ fn' = fn
              /\ RetryEntry(3, 1000)
      /\ templates' = IF Refused(allowed)
                      THEN UsageAfter(templates, p.id, res')
                      ELSE templates
      /\ start' = now
      /\ UNCHANGED <<clockVars, histVars, constructed, peer, granted, viewVars>>

\* the running workflow issues a generateContent call; the first attempt of
\* a step is the step's request
Send ==
  LET w == Workflow(prompt)
      m == ModelOfCall(w, ModeOf(prompt), step)
  IN  /\ isExecuting
      /\ Invoke
      /\ sent' = IF attempts = 0
                 THEN Append(sent, [model |-> m, step |-> step,
                                    config |-> ConfigOfCall(w, ModeOf(prompt)),
                                    context |-> ContextOfCall(w, step, currentResponse)])
                 ELSE sent
      /\ invoked' = [invoked EXCEPT ![m] = Counted(@ + 1)]
      /\ inflight' = inflight + 1
      /\ op' = [kind |-> "send"]
      /\ UNCHANGED <<clockVars, bucketVars, limiter, viewVars, histVars, isExecuting,
                     prompt, start, step, steps, currentResponse, res, runs,
                     failed, templates>>

\* the model service answers the call in flight with outcome o
Receive(o) ==
  /\ isExecuting
  /\ Settle(o)
  /\ inflight' = inflight - 1
  /\ failed' = (failed \/ ~o.ok)
  /\ op' = [kind |-> "receive"]
  /\ UNCHANGED <<clockVars, bucketVars, limiter, viewVars, histVars, isExecuting,
                 prompt, start, step, sent, steps, currentResponse, res, runs,
                 invoked, templates>>

\* the running workflow waits out a retry delay
Wait ==
  /\ isExecuting
  /\ Backoff
  /\ op' = [kind |-> "wait"]
  /\ UNCHANGED <<clockVars, bucketVars, limiter, viewVars, histVars, flowVars>>

\* withRetry has returned or thrown: the workflow goes on to its next call
\* or returns its result to handleRun
Continue ==
  LET w == Workflow(prompt)
      mode == ModeOf(prompt)
  IN  /\ isExecuting
      /\ rpc = "done"
      /\ op' = [kind |-> "continue"]
      /\ IF result.ok /\ step < CallsOf(w)
         THEN /\ step' = step + 1
              /\ currentResponse' = Reply(step)
              /\ steps' = steps \o StepsAfter(w, step) \o StepsBefore(w, step + 1)
              /\ RetryEntry(3, 1000)
              /\ UNCHANGED <<isExecuting, res, fn, templates>>
         ELSE /\ isExecuting' = FALSE
              /\ IF result.ok
                 THEN /\ currentResponse' = Reply(step)
                      /\ steps' = steps \o StepsAfter(w, step)
                      /\ res' = IF w = "executeStandardPrompt"
                                 THEN [text |-> Reply(step), error |-> NoError,
                                       metadata |-> TRUE,
                                       model |-> getModelConfig(mode).model]
                                 ELSE [text |-> Reply(step), error |-> NoError,
                                       metadata |-> TRUE,
                                       model |-> getModelConfig(mode).model,
                                       steps |-> steps \o StepsAfter(w, step)]
                 ELSE /\ res' = [text |-> NoText, error |-> CaughtError(w, result),
                                 metadata |-> FALSE]
                      /\ UNCHANGED <<currentResponse, steps>>
              /\ templates' = UsageAfter(templates, prompt.id, res')
              /\ fn' = fn /\ args' = [maxRetries |-> 0, initialDelay |-> 0]
              /\ retries' = 0 /\ delay' = 0 /\ attempts' = 0 /\ slept' = 0
              /\ rpc' = "idle" /\ result' = NoResult
              /\ UNCHANGED step
      /\ UNCHANGED <<clockVars, bucketVars, limiter, viewVars, histVars, prompt, start,
                     sent, invoked, inflight, failed, runs>>

\* the wall clock advances after a run has ended
Elapse(d) ==
  /\ ~isExecuting
  /\ op.kind \in {"run", "continue"}
  /\ ticks < MaxWaits
  /\ ticks' = ticks + 1
  /\ now' = now + d
  /\ op' = [kind |-> "clock"]
  /\ UNCHANGED <<bucketVars, limiter, viewVars, histVars, retryVars, flowVars>>

Next ==
  \/ \E p \in Prompts : Run(p)
  \/ Send
  \/ \E o \in Answers : Receive(o)
  \/ Wait
  \/ Continue
  \/ \E d \in TickSteps : Elapse(d)

Spec == Init /\ [][Next]_vars

(* the execution view once the fast tier has been used up *)
\* the record the flash limiter saved when its fifteenth token went
Drained == [tokens |-> 0, lastRefill |-> 0]

\* the module is loaded with that record in localStorage; the pro limiter
\* has saved nothing
InitDrained ==
  /\ now = 0
  /\ ticks = 0
  /\ localStorage = [k \in StorageKeys |->
                       IF k = storageKey("flash") THEN Drained ELSE NoItem]
  /\ tokens = [t \in Tiers |-> Construct(t, localStorage[storageKey(t)], 0).tokens]
  /\ lastRefill = [t \in Tiers |-> Construct(t, localStorage[storageKey(t)], 0).lastRefill]
  /\ constructed = [t \in Tiers |-> "ok"]
  /\ granted = 0
  /\ op = NoOp
  /\ okCount = 0
  /\ unitOnly = TRUE
  /\ cthAt = -1
  /\ cthDrained = FALSE
  /\ lateAfter = -1
  /\ peer = Construct("flash", Drained, 0)
  /\ InitRetryIdle
  /\ InitFlowIdle
  /\ limiter = "flash"

SpecDrained == InitDrained /\ [][Next]_vars

(* =================== storageService.search on any store ================ *)
\* the texts of a stored template: one whose name and tag hold "rust", one
\* whose description does, one without it
Texts ==
  {[name |-> <<"R", "u", "s", "t">>, description |-> <<"f", "i", "x">>,
    tags |-> << <<"d", "e", "v">>, <<"r", "u", "s", "t">> >>],
   [name |-> <<"M", "a", "i", "l">>, description |-> <<"T", "r", "u", "s", "t", "y">>,
    tags |-> << <<"m", "e">> >>],
   [name |-> <<"M", "a", "i", "l">>, description |-> <<"s", "u", "m">>,
    tags |-> <<>>]}

\* the embeddings of stored templates and of queries
Vectors == {<<3, 4>>, <<0, 0>>, <<1>>}
StoredEmbeddings == {NoEmbedding} \cup {Embedding(v) : v \in Vectors}
QueryEmbeddings == StoredEmbeddings \cup {Embedding(<<-3, -4>>)}

\* lastModified: now, six days ago, a day ahead of the clock
Modified == {0, 0 - 6 * DAY, DAY}

UsageCounts == {0, 38, 39}

\* the ids of the templates of a store, in store order
StoredIds == <<"a", "b">>

TemplateAt(k) ==
  {[id |-> StoredIds[k]] @@ t @@ [embedding |-> e, lastModified |-> m, usageCount |-> u] :
     t \in Texts, e \in StoredEmbeddings, m \in Modified, u \in UsageCounts}

\* the stored arrays: empty, one template, two templates, the seed data
Stores ==
  {<<>>, SeedTemplates} \cup {<<a>> : a \in TemplateAt(1)}
  \cup {<<a, b>> : a \in TemplateAt(1), b \in TemplateAt(2)}

\* the queries typed: none, and "Rust"
Queries == {<<>>, <<"R", "u", "s", "t">>}

InitSearch ==
  /\ InitLimiters
  /\ peer = Construct("flash", NoItem, 0)
  /\ InitRetryIdle
  /\ InitExecutionIdle
  /\ InitViewIdle
  /\ limiter = "flash"
  /\ templates \in Stores

\* a caller runs storageService.search(query, queryEmbedding); a search
\* leaves the store as it is, so that the first search on a store stands for
\* every search on it
Search(query, queryEmbedding) ==
  /\ op.kind = "none"
  /\ prompts' = search(templates, query, queryEmbedding, now)
  /\ templates' = GetAll(templates)
  /\ op' = [kind |-> "search", query |-> query, queryEmbedding |-> queryEmbedding]
  /\ UNCHANGED <<clockVars, bucketVars, limiter, histVars, retryVars,
                 isExecuting, prompt, start, step, sent, steps, currentResponse,
                 res, invoked, inflight, failed, runs,
                 searchTerm, isSearching, handler, pending, apiKey, issued,
                 peakUsage>>

NextSearch == \E q \in Queries, e \in QueryEmbeddings : Search(q, e)

SpecSearch == InitSearch /\ [][NextSearch]_vars

(* ================== LibraryView: the debounced search ================== *)
\* the stores the library view is opened on: the seed data, and two
\* templates that carry embeddings
LibraryStores ==
  {SeedTemplates,
   <<[id |-> "a", name |-> <<"R", "u", "s", "t">>, description |-> <<"f", "i", "x">>,
      tags |-> << <<"r", "u", "s", "t">> >>, embedding |-> Embedding(<<3, 4>>),
      lastModified |-> 0, usageCount |-> 0],
     [id |-> "b", name |-> <<"M", "a", "i", "l">>, description |-> <<"s", "u", "m">>,
      tags |-> <<>>, embedding |-> Embedding(<<-3, -4>>),
      lastModified |-> 0 - 6 * DAY, usageCount |-> 1]>>}

\* what the user types into the search box
LibraryQueries == {<<>>, <<"R", "u", "s", "t">>, <<"m", "a", "i", "l">>}

\* what embedContent can do: answer with an embedding, answer without one,
\* reject with an error that is retried, reject with one that is not
EmbedOutcomes ==
  {[ok |-> TRUE, value |-> Embedding(<<3, 4>>)], [ok |-> TRUE, value |-> NoEmbedding],
   Err503, ErrBadRequest}

NoHandler == [set |-> FALSE]

\* a generateEmbedding whose catch block returns a vector of zeros
generateEmbedding_Zeros(o) == IF o.ok THEN o.value ELSE Embedding(<<0, 0>>)

\* what generateEmbedding returns when withRetry has returned or thrown o:
\* embedResult?.values, undefined from the catch block
generateEmbedding(o) == IF o.ok THEN o.value ELSE NoEmbedding

\* the view has been mounted: loadPrompts has run and the search effect has
\* set its first timer; process.env.API_KEY is there or not
InitLibrary ==
  /\ InitLimiters
  /\ peer = Construct("flash", NoItem, 0)
  /\ InitRetryIdle
  /\ InitExecutionIdle
  /\ limiter = "flash"
  /\ templates \in LibraryStores
  /\ searchTerm = <<>>
  /\ prompts = GetAll(templates)
  /\ isSearching = FALSE
  /\ handler = [set |-> TRUE, term |-> <<>>]
  /\ pending = {}
  /\ apiKey \in BOOLEAN
  /\ issued = 0
  /\ peakUsage = <<>>

libraryFrame ==
  <<clockVars, bucketVars, limiter, histVars, retryVars, templates, apiKey, peakUsage,
    isExecuting, prompt, start, step, sent, steps, currentResponse, res,
    invoked, inflight, failed, runs>>

\* setSearchTerm(query): the effect's cleanup clears the timer that has
\* not fired and the effect sets a new one
Type(query) ==
  /\ query # searchTerm
  /\ issued < MaxQueries
  /\ issued' = issued + 1
  /\ searchTerm' = query
  /\ handler' = [set |-> TRUE, term |-> query]
  /\ op' = [kind |-> "type"]
  /\ UNCHANGED <<libraryFrame, prompts, isSearching, pending>>

\* the timer fires: the handler runs up to its await, or to its end when
\* there is nothing to await
Fire ==
  /\ handler.set
  /\ handler' = NoHandler
  /\ IF handler.term = <<>>
     THEN /\ prompts' = GetAll(templates)
          /\ op' = [kind |-> "load"]
          /\ UNCHANGED <<isSearching, pending>>
     ELSE IF apiKey
     THEN /\ isSearching' = TRUE
          /\ pending' = pending \cup {[term |-> handler.term, n |-> issued,
                                        retries |-> 3, delay |-> 1000]}
          /\ op' = [kind |-> "embed"]
          /\ UNCHANGED prompts
     ELSE /\ prompts' = search(templates, handler.term, NoEmbedding, now)
          /\ isSearching' = FALSE
          /\ op' = [kind |-> "results", term |-> handler.term, cause |-> "no key",
                    queryEmbedding |-> NoEmbedding]
          /\ UNCHANGED pending
  /\ UNCHANGED <<libraryFrame, searchTerm, issued>>

\* embedContent rejects one of the calls in flight with a retryable error
\* while retries are left: withRetry sleeps and calls again
EmbedRetry(o) ==
  \E c \in pending :
    /\ IF o.ok THEN FALSE ELSE c.retries > 0 /\ IsRetryable(o)
    /\ pending' = (pending \ {c})
                    \cup {[c EXCEPT !.retries = @ - 1, !.delay = NextDelay(@, 1000)]}
    /\ op' = [kind |-> "retry"]
    /\ UNCHANGED <<libraryFrame, searchTerm, prompts, isSearching, handler, issued>>

\* withRetry returns or throws o for one of the calls in flight:
\* generateEmbedding returns and the handler runs to its end
Embedded(o) ==
  \E c \in pending :
    LET embedding == generateEmbedding(o)
    IN  /\ IF o.ok THEN TRUE ELSE ~(c.retries > 0 /\ IsRetryable(o))
        /\ pending' = pending \ {c}
        /\ prompts' = search(templates, c.term, embedding, now)
        /\ isSearching' = FALSE
        /\ op' = [kind |-> "results", term |-> c.term,
                  cause |-> IF o.ok THEN "answer" ELSE "error",
                  outcome |-> o, retries |-> c.retries,
                  queryEmbedding |-> embedding]
        /\ UNCHANGED <<libraryFrame, searchTerm, handler, issued>>

NextLibrary ==
  \/ \E q \in LibraryQueries : Type(q)
  \/ Fire
  \/ \E o \in EmbedOutcomes : EmbedRetry(o)
  \/ \E o \in EmbedOutcomes : Embedded(o)

SpecLibrary == InitLibrary /\ [][NextLibrary]_vars

(* ================== storageService: the template store ================= *)
\* the ids of the templates saved and imported
StoreIds == TemplateIds

\* lastModified of the seeds (Date.now() when the module is loaded) and of
\* the templates handed to save later (Date.now() in handleSave)
Seeded == 0
Edited == 1

\* the templates handed to save, by the editor or out of an imported file,
\* as far as the store looks at them
Saved ==
  [id : StoreIds, usageCount : {0, 7}, embedding : {NoEmbedding},
   lastModified : {Edited}]
  \cup [id : {SEED_DATA[1].id}, usageCount : {0}, embedding : {Embedding(<<3, 4>>)},
        lastModified : {Edited}]

\* the arrays of an imported file
Imports == UNION {[1..n -> Saved] : n \in 0..MaxImport}

\* the highest usage count each id has been stored with
PeakAfter(ts) ==
  [id \in StoreIds |->
     LET index == FindIndex(ts, id)
         before == peakUsage[id]
     IN  IF index >= 1 /\ ts[index].usageCount > before
         THEN ts[index].usageCount ELSE before]

InitStore ==
  /\ InitLimiters
  /\ peer = Construct("flash", NoItem, 0)
  /\ InitRetryIdle
  /\ InitExecutionIdle
  /\ limiter = "flash"
  /\ searchTerm = <<>>
  /\ prompts = <<>>
  /\ isSearching = FALSE
  /\ handler = NoHandler
  /\ pending = {}
  /\ apiKey = FALSE
  /\ issued = 0
  /\ templates = [k \in DOMAIN SEED_DATA |->
                    SEED_DATA[k] @@ [embedding |-> NoEmbedding, lastModified |-> Seeded]]
  /\ peakUsage = [id \in StoreIds |->
                    IF FindIndex(SEED_DATA, id) >= 1
                    THEN SEED_DATA[FindIndex(SEED_DATA, id)].usageCount ELSE 0 - 1]

storeFrame ==
  <<clockVars, bucketVars, limiter, histVars, retryVars,
    isExecuting, prompt, start, step, sent, steps, currentResponse, res,
    invoked, inflight, failed,
    searchTerm, prompts, isSearching, handler, pending, apiKey, issued>>

\* storageService.save(template)
Save(template) ==
  /\ templates' = SaveState(templates, template)
  /\ peakUsage' = PeakAfter(templates')
  /\ op' = [kind |-> "save", template |-> template]
  /\ UNCHANGED <<storeFrame, runs>>

\* storageService.incrementUsage(id), which handleRun calls after a run
\* without error
Increment(id) ==
  /\ runs < MaxRuns
  /\ runs' = runs + 1
  /\ templates' = IncrementUsage(templates, id)
  /\ peakUsage' = PeakAfter(templates')
  /\ op' = [kind |-> "incrementUsage", id |-> id]
  /\ UNCHANGED storeFrame

\* storageService.delete(id)
Delete(id) ==
  /\ templates' = DeleteState(templates, id)
  /\ peakUsage' = PeakAfter(templates')
  /\ op' = [kind |-> "delete", id |-> id]
  /\ UNCHANGED <<storeFrame, runs>>

\* handleImport's reader.onload with a file that holds the array json
Import(json) ==
  /\ templates' = ImportState(templates, json)
  /\ peakUsage' = PeakAfter(templates')
  /\ op' = [kind |-> "import", length |-> Len(json),
            ids |-> {json[k].id : k \in DOMAIN json}]
  /\ UNCHANGED <<storeFrame, runs>>

NextStore ==
  \/ \E t \in Saved : Save(t)
  \/ \E id \in StoreIds : Increment(id)
  \/ \E id \in StoreIds : Delete(id)
  \/ \E json \in Imports : Import(json)

SpecStore == InitStore /\ [][NextStore]_vars

(* ===================== TokenBucket: claims C1, C8-C10 =================== *)

\* C1: every bucket holds between 0 and capacity tokens after any sequence
\* of constructions (reloads of the saved record included), refills and
\* consume(cost) calls at any clock readings.
C1_TokensWithinCapacity ==
  \A t \in Tiers : 0 <= tokens[t] /\ tokens[t] <= maxTokens(t) * TokenUnit

\* a consume succeeded on a bucket that a refill had left at a fractional
\* amount, then the clock was set back and the page reloaded
C1_Witness ==
  /\ op.kind = "reload"
  /\ tokens[limiter] % TokenUnit # 0
  /\ lastRefill[limiter] > now
  /\ localStorage[storageKey(limiter)] # NoItem

\* C8: consume(cost) first refills; then, when the refilled amount covers the
\* cost, it deducts exactly cost, saves and returns true; otherwise it
\* returns false and changes nothing beyond what the refill did (tokens,
\* lastRefill and the saved record stay as the refill left them).
C8_ConsumeEffect ==
  [][ op'.kind = "consume" =>
        LET t == limiter
            k == storageKey(t)
            elapsed == now - lastRefill[t]
            refTokens == IF elapsed > 0
                         THEN Min(maxTokens(t) * TokenUnit,
                                  tokens[t] + elapsed * refillRatePerSecond(t))
                         ELSE tokens[t]
            refLast == IF elapsed > 0 THEN now ELSE lastRefill[t]
            refStore == IF elapsed > 0
                        THEN [localStorage EXCEPT
                                ![k] = [tokens |-> refTokens, lastRefill |-> refLast]]
                        ELSE localStorage
        IN  /\ lastRefill'[t] = refLast
            /\ \A u \in Tiers \ {t} :
                  tokens'[u] = tokens[u] /\ lastRefill'[u] = lastRefill[u]
            /\ IF refTokens >= op'.cost * TokenUnit
               THEN /\ op'.ret = TRUE
                    /\ tokens'[t] = refTokens - op'.cost * TokenUnit
                    /\ localStorage' =
                         [localStorage EXCEPT
                            ![k] = [tokens |-> tokens'[t], lastRefill |-> refLast]]
               ELSE /\ op'.ret = FALSE
                    /\ tokens'[t] = refTokens
                    /\ localStorage' = refStore
    ]_vars

\* a consume(2) was rejected right after its refill had credited and saved a
\* fractional amount
C8_Witness ==
  /\ op.kind = "consume"
  /\ op.ret = FALSE
  /\ op.cost = 2
  /\ lastRefill[limiter] = now
  /\ now > 0
  /\ tokens[limiter] > 0
  /\ tokens[limiter] % TokenUnit # 0
  /\ localStorage[storageKey(limiter)] = SavedItem(Bucket(limiter))

\* C9 as stated: a bucket starts full; after maxTokens successful consume()
\* calls, whatever their timing, consume() returns false until ceil(1/rate)
\* seconds have elapsed since the last of them, then succeeds once, and the
\* next call is rejected.
C9_AsStated ==
  [][ (op'.kind = "consume" /\ op'.cost = 1 /\ unitOnly /\ cthAt # -1) =>
        /\ okCount = maxTokens(limiter) =>
              (op'.ret <=> now - cthAt >= CeilInvRate(limiter))
        /\ (/\ okCount = maxTokens(limiter) + 1
            /\ now = cthAt + CeilInvRate(limiter)) => op'.ret = FALSE
    ]_vars

\* C9 amended: the same, for the case in which the maxTokens-th successful
\* call leaves the bucket empty and refilled up to its own clock reading (no
\* refill was credited between the calls, and the clock was not set back
\* behind the last refill).
C9_AfterDrain ==
  [][ (op'.kind = "consume" /\ op'.cost = 1 /\ unitOnly /\ cthAt # -1
       /\ cthDrained) =>
        /\ okCount = maxTokens(limiter) =>
              (op'.ret <=> now - cthAt >= CeilInvRate(limiter))
        /\ (/\ okCount = maxTokens(limiter) + 1
            /\ lateAfter = CeilInvRate(limiter)
            /\ now = cthAt + CeilInvRate(limiter)) => op'.ret = FALSE
    ]_vars

\* the bucket was drained, a call ceil(1/rate) seconds later succeeded and
\* the call after it, at the same clock reading, was rejected
C9_Witness ==
  /\ op.kind = "consume"
  /\ op.cost = 1
  /\ op.ret = FALSE
  /\ unitOnly
  /\ cthDrained
  /\ okCount = maxTokens(limiter) + 1
  /\ lateAfter = CeilInvRate(limiter)
  /\ now = cthAt + CeilInvRate(limiter)

\* C10 as stated: at every point between operations the saved record of a
\* tier equals the bucket's {tokens, lastRefill}.
C10_AsStated ==
  \A t \in Tiers : localStorage[storageKey(t)] = SavedItem(Bucket(t))

\* C10 amended: a tier's saved record, once there is one, equals the
\* bucket's {tokens, lastRefill}; while there is none the bucket is full, and
\* so is the bucket rebuilt then.  Either way the rebuilt bucket holds the
\* same tokens and answers the next consume(cost) as the original does.
C10_SavedRecordFidelity ==
  \A t \in Tiers :
    LET saved == localStorage[storageKey(t)]
        rebuilt == Construct(t, saved, now)
    IN  /\ saved # NoItem => rebuilt = Bucket(t)
        /\ saved = NoItem => tokens[t] = maxTokens(t) * TokenUnit
        /\ rebuilt.tokens = tokens[t]
        /\ \A cost \in 1..MaxCost :
              /\ ConsumeAllowed(t, rebuilt, cost, now) = ConsumeAllowed(t, Bucket(t), cost, now)
              /\ ConsumeState(t, rebuilt, cost, now).tokens = ConsumeState(t, Bucket(t), cost, now).tokens

\* a bucket was rebuilt from a record saved by a consume, and holds less
\* than its capacity
C10_Witness ==
  /\ op.kind = "reload"
  /\ localStorage[storageKey(limiter)] # NoItem
  /\ tokens[limiter] < maxTokens(limiter) * TokenUnit
  /\ Bucket(limiter) = Construct(limiter, localStorage[storageKey(limiter)], now)

(* ==================== TokenBucket construction: claim C11 ================ *)
\* a stored string that JSON.parse does not accept
Unparseable(item) == item = Garbled

\* C11: constructing a bucket when the tier's saved record is missing or
\* unparseable never fails: the bucket exists afterwards, with tokens =
\* capacity and lastRefill = now.
C11_AsStated ==
  op.kind = "load" =>
    \A t \in Tiers :
      LET item == localStorage[storageKey(t)]
      IN  (item = NoItem \/ Unparseable(item))
          => /\ constructed[t] = "ok"
             /\ tokens[t] = maxTokens(t) * TokenUnit
             /\ lastRefill[t] = now

(* ==================== TokenBucket concurrency: claim C12 ================= *)
\* C12: whatever the interleaving of the callers of a tier, two bucket
\* objects over the same saved record included, no update is lost: the
\* tokens handed out never exceed the initial tokens plus the tokens
\* refilled over the elapsed time.
C12_AsStated ==
  granted * TokenUnit
    <= maxTokens(limiter) * TokenUnit + now * refillRatePerSecond(limiter)

(* ========================= workflows: claims C2-C4 ====================== *)
\* the tier a template is configured for, as the specification's router table
\* gives it
ConfiguredTier(p) == IF p.mode \in {"smart", "reasoning"} THEN "pro" ELSE "flash"

\* tokens a bucket holds at a clock reading, refill for the elapsed time included
Held(t, clock) ==
  IF clock > lastRefill[t]
  THEN Min(maxTokens(t) * TokenUnit,
           tokens[t] + (clock - lastRefill[t]) * refillRatePerSecond(t))
  ELSE tokens[t]

\* the last run was turned down by the rate limiter
Rejected ==
  /\ ~isExecuting
  /\ runs > 0
  /\ res.error.set
  /\ res.error.kind = "rate limit"

\* C2: when the configured tier's bucket holds less than one token (the
\* refill for the elapsed time counted) as a direct, step-back or
\* chain-of-density invocation starts, the invocation ends at once with a
\* capacity-exceeded error result and without metadata; no model invocation
\* is made, no withRetry is entered and nothing is slept for it.
C2_RejectedRunCallsNothing ==
  [][ /\ (op'.kind = "run" /\ Held(ConfiguredTier(prompt'), now) < TokenUnit)
         => Rejected'
      /\ Rejected' => /\ sent' = <<>>
                      /\ \A m \in Models : invoked'[m] = 0
                      /\ res'.metadata = FALSE
                      /\ rpc' = "idle" /\ attempts' = 0 /\ slept' = 0
    ]_vars

\* a third heavy-tier run, one second after the second, finds a fraction of
\* a token and is turned down
C2_Witness ==
  /\ Rejected
  /\ op.kind = "run"
  /\ limiter = "pro"
  /\ tokens["pro"] > 0
  /\ tokens["pro"] < TokenUnit
  /\ \A m \in Models : invoked[m] = 0

\* C3 as stated, for the invocations of the latest run, which all fall in the
\* 60-second window that opens when it starts: at most 15 go to the
\* lightweight model and at most 2 to the heavyweight model.
C3_AsStated ==
  now - start < Window => \A m \in Models : invoked[m] <= RpmLimit(m)

\* C4: when no call fails, a chain-of-density invocation makes exactly 3
\* model invocations, a step-back invocation exactly 2 and a direct
\* invocation exactly 1.
C4_CallsOnSuccessPath ==
  (~isExecuting /\ runs > 0 /\ ~Rejected /\ ~failed)
  => LET n == IF prompt.stepBack THEN 2
              ELSE IF prompt.chainOfDensity THEN 3 ELSE 1
     IN  /\ invoked[Flash] + invoked[Pro] = n
         /\ Len(sent) = n
         /\ res.metadata = TRUE

\* a chain of density in smart mode has returned its result after three
\* invocations of the heavyweight model
C4_Witness ==
  /\ ~isExecuting
  /\ runs > 0
  /\ ~failed
  /\ prompt.chainOfDensity /\ ~prompt.stepBack /\ prompt.mode = "smart"
  /\ res.metadata = TRUE
  /\ invoked[Pro] = 3

(* ================= router and checkout: claims C13, C14 ================= *)
\* the requests of a direct invocation carry what the router returned
DirectRequestsFollow(p) ==
  Workflow(p) = "executeStandardPrompt" =>
    \A k \in 1..Len(sent) :
      /\ sent[k].model = (IF p.mode \in {"smart", "reasoning"} THEN Pro ELSE Flash)
      /\ sent[k].config = (p.mode = "reasoning")

\* C13: routing constructs no limiter.  fast, and a template without a mode,
\* go to the lightweight model and the one 15-token bucket; smart and
\* reasoning both go to the heavyweight model and the one 2-token bucket, so
\* that a run in either mode debits the same tokens; only reasoning carries
\* the thinking-budget config.
C13_RouteTable ==
  [][ /\ op'.kind = "run" =>
          LET heavy == prompt'.mode \in {"smart", "reasoning"}
              t == IF heavy THEN "pro" ELSE "flash"
              u == IF heavy THEN "flash" ELSE "pro"
          IN  /\ limiter' = t
              /\ constructed' = constructed
              /\ Held(t, now) <= (IF heavy THEN 2 ELSE 15) * TokenUnit
              /\ tokens'[t] = IF op'.ret THEN Held(t, now) - TokenUnit ELSE Held(t, now)
              /\ tokens'[u] = tokens[u] /\ lastRefill'[u] = lastRefill[u]
              /\ localStorage'[storageKey(u)] = localStorage[storageKey(u)]
      /\ DirectRequestsFollow(prompt)'
      /\ (~isExecuting' /\ runs' > 0 /\ res'.metadata)
            => res'.model = (IF prompt'.mode \in {"smart", "reasoning"} THEN Pro ELSE Flash)
    ]_vars

\* a direct run in reasoning mode is turned down after earlier heavy-tier
\* runs took the two tokens, while the light bucket is still full
C13_Witness ==
  /\ Rejected
  /\ prompt.mode = "reasoning"
  /\ limiter = "pro"
  /\ tokens["pro"] < TokenUnit
  /\ tokens["flash"] = maxTokens("flash") * TokenUnit

\* C14: a workflow invocation checks one unit out of its template's tier's
\* bucket before its first model call; its calls, the waits between retry
\* attempts and its later steps debit no bucket and save nothing.
C14_OneCheckout ==
  [][ /\ (op'.kind = "run" /\ ~Rejected')
          => /\ tokens'[ConfiguredTier(prompt')]
                  = Held(ConfiguredTier(prompt'), now) - TokenUnit
             /\ \A t \in Tiers \ {ConfiguredTier(prompt')} : tokens'[t] = tokens[t]
             /\ sent' = <<>>
             /\ \A m \in Models : invoked'[m] = 0
      /\ op'.kind \in {"send", "receive", "wait", "continue"}
          => /\ tokens' = tokens
             /\ lastRefill' = lastRefill
             /\ localStorage' = localStorage
    ]_vars

\* a chain of density in smart mode has retried its third call and ended;
\* the heavy bucket lost one token, the light one none
C14_Witness ==
  /\ ~isExecuting
  /\ runs = 1
  /\ prompt.chainOfDensity /\ ~prompt.stepBack /\ prompt.mode = "smart"
  /\ invoked[Pro] > 3
  /\ res.metadata
  /\ tokens["pro"] = (maxTokens("pro") - 1) * TokenUnit
  /\ tokens["flash"] = maxTokens("flash") * TokenUnit

(* ===================== workflow sequencing: claim C15 =================== *)
\* model calls of the latest run that have been issued (each model's count
\* up to MaxCounted)
Issued == invoked[Flash] + invoked[Pro]

\* C15: within one invocation the model calls are strictly sequential: a
\* call (a retry attempt included) is issued only when every earlier call of
\* the invocation has completed, so at most one is in flight; the steps'
\* requests go out in order, and the request of step N+1 contains the output
\* of step N.
C15_Sequential ==
  [][ /\ inflight' \in {0, 1}
      /\ op'.kind = "send" => inflight = 0 /\ inflight' = 1
      /\ op'.kind = "receive" => inflight = 1 /\ inflight' = 0
      /\ op'.kind \in {"run", "wait", "continue"} => inflight = 0 /\ inflight' = 0
      /\ \A k \in 1..Len(sent') :
            /\ sent'[k].step = k
            /\ sent'[k].context = (IF k = 1 THEN NoText ELSE Reply(k - 1))
      /\ isExecuting' => Len(sent') \in {step' - 1, step'}
      /\ (isExecuting' /\ step' > 1) => currentResponse' = Reply(step' - 1)
    ]_vars

\* the third request of a chain of density is in flight, after an attempt
\* of an earlier step had to be repeated
C15_Witness ==
  /\ isExecuting
  /\ op.kind = "send"
  /\ prompt.chainOfDensity /\ ~prompt.stepBack
  /\ step = 3
  /\ attempts = 1
  /\ Len(sent) = 3
  /\ sent[3].context = Reply(2)
  /\ Issued = 4
  /\ inflight = 1

(* ================ failures and usage: claims C16, C17, C18 ============== *)
\* withRetry has thrown: the running workflow is in its catch block
TerminalFailure == isExecuting /\ rpc = "done" /\ ~result.ok

\* C16: when a model call of a workflow fails terminally (an error that is
\* not retried, or retries used up), the workflow issues no further model
\* call and returns an error result without metadata and without trace,
\* whatever trace entries it had accumulated.
C16_AsStated ==
  [][ (TerminalFailure /\ op'.kind = "continue")
        => /\ ~isExecuting'
           /\ rpc' = "idle"
           /\ sent' = sent
           /\ Issued' = Issued
           /\ inflight' = 0
           /\ res'.error.set
           /\ res'.text = NoText
           /\ res'.metadata = FALSE
           /\ "steps" \notin DOMAIN res'
    ]_vars

\* C17: every terminal model-call failure, in each of the three workflows,
\* reaches the caller as a result whose error field is set and carries the
\* failing error's message as it was; none, an error without a message
\* included, comes back as a result the caller takes for a success.
C17_AsStated ==
  [][ (TerminalFailure /\ op'.kind = "continue")
        => /\ res'.error.set
           /\ result.hasMessage
                => res'.error.kind = "message" /\ res'.error.message = result.message
    ]_vars

\* usageCount of the stored template with the given id
UsageOf(ts, id) == ts[FindIndex(ts, id)].usageCount

\* C18: the caller adds exactly one to the template's usage counter when,
\* and only when, the workflow succeeded; a run turned down by the rate
\* limiter or one whose model call failed terminally adds nothing, and no
\* other template's counter changes.
C18_AsStated ==
  [][ /\ (isExecuting /\ rpc = "done" /\ op'.kind = "continue" /\ ~isExecuting')
          => UsageOf(templates', prompt.id)
               = UsageOf(templates, prompt.id) + (IF result.ok THEN 1 ELSE 0)
      /\ (op'.kind = "run" /\ Rejected') => templates' = templates
      /\ (op'.kind = "run" /\ isExecuting') => templates' = templates
      /\ op'.kind \notin {"run", "continue"} => templates' = templates
      /\ \A k \in DOMAIN templates :
            templates[k].id # prompt.id => templates'[k] = templates[k]
    ]_vars

(* ============== workflow choice and step-back: claims C19, C20 ========== *)
\* the three trace entries of a step-back run that went through
StepBackTrace ==
  <<[entry |-> "Generating Step-Back abstraction..."],
    [entry |-> "Abstraction", text |-> Reply(1)],
    [entry |-> "Executing final grounded prompt..."]>>

\* the model the template's mode is configured for
ConfiguredModel(p) == IF p.mode \in {"smart", "reasoning"} THEN Pro ELSE Flash

\* C19: exactly one of the three workflows runs per invocation, fixed by the
\* flags: step-back when stepBack is set (chainOfDensity set or not),
\* otherwise chain of density when chainOfDensity is set, otherwise direct.
\* The workflow shows in the trace it starts, in the rate-limit error it
\* returns, and in the calls of a run that went through.
C19_WorkflowChoice ==
  [][ /\ (op'.kind = "run" /\ isExecuting')
          => steps' = (IF prompt'.stepBack
                       THEN <<[entry |-> "Generating Step-Back abstraction..."]>>
                       ELSE IF prompt'.chainOfDensity
                       THEN <<[entry |-> "Iteration", i |-> 1]>>
                       ELSE <<>>)
      /\ (op'.kind = "run" /\ ~isExecuting')
          => res'.error = (IF prompt'.stepBack \/ prompt'.chainOfDensity
                           THEN [set |-> TRUE, kind |-> "rate limit"]
                           ELSE [set |-> TRUE, kind |-> "rate limit",
                                 mode |-> IF prompt'.mode = "unset" THEN "fast"
                                          ELSE prompt'.mode])
      /\ Len(steps') > 0 => prompt'.stepBack \/ prompt'.chainOfDensity
      /\ \A k \in 1..Len(steps') :
            /\ prompt'.stepBack => steps'[k].entry \notin {"Iteration", "Result"}
            /\ ~prompt'.stepBack => steps'[k].entry \in {"Iteration", "Result"}
      /\ (~isExecuting' /\ res'.metadata)
          => /\ Len(sent') = (IF prompt'.stepBack THEN 2
                              ELSE IF prompt'.chainOfDensity THEN 3 ELSE 1)
             /\ ("steps" \in DOMAIN res') = (prompt'.stepBack \/ prompt'.chainOfDensity)
    ]_vars

\* a template with both flags set has gone through as a step-back run
C19_Witness ==
  /\ ~isExecuting
  /\ prompt.stepBack /\ prompt.chainOfDensity
  /\ res.metadata
  /\ Len(sent) = 2
  /\ res.steps = StepBackTrace

C30_AsStated ==
  op.kind = "consume"
  => /\ lastRefill[limiter] = now
     /\ localStorage[storageKey(limiter)] = SavedItem(Bucket(limiter))

(* ====================== chain of density: claim C21 ===================== *)
\* the entries of a trace that record an iteration's output
IsResultEntry(e) == e.entry = "Result"

\* C21: in a chain-of-density invocation the first iteration's request is
\* built from the original prompt only, the second and third carry the
\* output of the iteration just before, the result's text is the third
\* iteration's output, and the trace holds the first 50 characters of each
\* iteration's output, in iteration order.
C21_ChainOfDensity ==
  (prompt.chainOfDensity /\ ~prompt.stepBack /\ runs > 0)
  => /\ Len(sent) <= 3
     /\ \A k \in 1..Len(sent) :
           sent[k].context = (IF k = 1 THEN NoText
                              ELSE [reply |-> k - 1, length |-> 30 * (k - 1)])
     /\ (~isExecuting /\ res.metadata)
           => /\ Len(sent) = 3
              /\ res.text = [reply |-> 3, length |-> 90]
              /\ SelectSeq(res.steps, IsResultEntry)
                   = <<[entry |-> "Result", i |-> 1,
                        preview |-> [reply |-> 1, length |-> 30]],
                       [entry |-> "Result", i |-> 2,
                        preview |-> [reply |-> 2, length |-> 50]],
                       [entry |-> "Result", i |-> 3,
                        preview |-> [reply |-> 3, length |-> 50]]>>

\* a chain-of-density run went through after its second iteration had to
\* be retried
C21_Witness ==
  /\ ~isExecuting
  /\ prompt.chainOfDensity /\ ~prompt.stepBack
  /\ res.metadata
  /\ failed
  /\ Len(sent) = 3
  /\ res.text = Reply(3)
  /\ Len(res.steps) = 6

(* ================= storageService.search: claims C23-C27 =============== *)
\* the search of the state was for a query that is not empty
Searched == op.kind = "search" /\ op.query # <<>>

\* the score the search of the state gave the k-th stored template
ScoreAt(k) == Score(templates[k], ToLowerCase(op.query), op.queryEmbedding, now)

\* the stored templates that score more than 0.5
Passing == {k \in DOMAIN templates : ~ScoreAt(k).nan /\ 2 * ScoreAt(k).v > ScoreUnit}

\* the place of the template with this id in the displayed list, 0 if it
\* is not there
PlaceOf(id) ==
  IF \E i \in DOMAIN prompts : prompts[i].id = id
  THEN CHOOSE i \in DOMAIN prompts : prompts[i].id = id
  ELSE 0

\* C23: for a query that is not empty, search returns exactly the stored
\* templates whose score is above 0.5, each once and with its score, ordered
\* by score from high to low.
C23_FilteredAndSorted ==
  Searched
  => /\ Len(prompts) = Cardinality(Passing)
     /\ \A k \in Passing :
           \E i \in DOMAIN prompts : prompts[i] = templates[k] @@ [score |-> ScoreAt(k)]
     /\ \A i \in DOMAIN prompts : \E k \in Passing : prompts[i].id = templates[k].id
     /\ \A i, j \in DOMAIN prompts : i < j => prompts[i].score.v >= prompts[j].score.v

\* a search has put the second stored template in front of the first
C23_Witness ==
  /\ Searched
  /\ Len(templates) = 2
  /\ Len(prompts) = 2
  /\ prompts[1].id = templates[2].id
  /\ prompts[1].score.v > prompts[2].score.v

\* C24: for an empty query search returns every stored template in store
\* order, without a score, whatever the templates would have scored.
C24_EmptyQueryPassThrough ==
  (op.kind = "search" /\ op.query = <<>>)
  => /\ prompts = templates
     /\ \A i \in DOMAIN prompts : "score" \notin DOMAIN prompts[i]

\* an empty query, with a query embedding, on a store whose first template
\* is old and unused and whose second one is fresh and much used
C24_Witness ==
  /\ op.kind = "search" /\ op.query = <<>>
  /\ op.queryEmbedding.vector
  /\ Len(templates) = 2
  /\ templates[1].usageCount = 0 /\ templates[1].lastModified < now - 5 * DAY
  /\ templates[2].usageCount = 39 /\ templates[2].lastModified = now
  /\ Len(prompts) = 2
  /\ prompts[1].id = templates[1].id

\* the text holds the query, letter case aside
Holds(text, query) == Includes(ToLowerCase(text), ToLowerCase(query))

\* the template matches the query by name and tag only: keyword score 13
NameAndTagMatch(p, query) ==
  /\ Holds(p.name, query)
  /\ ~Holds(p.description, query)
  /\ \E k \in DOMAIN p.tags : Holds(p.tags[k], query)

\* the template has no keyword signal for the query
NoKeywordMatch(p, query) ==
  /\ ~Holds(p.name, query)
  /\ ~Holds(p.description, query)
  /\ \A k \in DOMAIN p.tags : ~Holds(p.tags[k], query)

\* C25 as stated: with no query embedding, a template that matches by name
\* and tag scores above 0.5 and is ranked above every template without
\* keyword and semantic signal, whatever the recency and usage of the two.
C25_AsStated ==
  (Searched /\ ~op.queryEmbedding.vector)
  => \A a, b \in DOMAIN templates :
        (NameAndTagMatch(templates[a], op.query) /\ NoKeywordMatch(templates[b], op.query))
        => /\ PlaceOf(templates[a].id) > 0
           /\ PlaceOf(templates[b].id) > 0
                 => PlaceOf(templates[a].id) < PlaceOf(templates[b].id)

\* C25, amended: with no query embedding, a template that matches by name
\* and tag scores at least 13 and is in the result, ranked above every
\* template without keyword signal that was not modified in the future and
\* has been used at most 38 times.
C25_KeywordMatchOutranks ==
  (Searched /\ ~op.queryEmbedding.vector)
  => \A a, b \in DOMAIN templates :
        (NameAndTagMatch(templates[a], op.query) /\ NoKeywordMatch(templates[b], op.query))
        => /\ PlaceOf(templates[a].id) > 0
           /\ prompts[PlaceOf(templates[a].id)].score.v >= 13 * ScoreUnit
           /\ (templates[b].lastModified <= now /\ templates[b].usageCount <= 38
                /\ PlaceOf(templates[b].id) > 0)
                 => PlaceOf(templates[a].id) < PlaceOf(templates[b].id)

\* an old, unused template that matches by name and tag is stored behind a
\* fresh one without keyword signal that was used 38 times, and ranked
\* before it
C25_Witness ==
  /\ Searched /\ ~op.queryEmbedding.vector
  /\ Len(templates) = 2
  /\ NoKeywordMatch(templates[1], op.query)
  /\ templates[1].usageCount = 38 /\ templates[1].lastModified = now
  /\ NameAndTagMatch(templates[2], op.query)
  /\ templates[2].usageCount = 0 /\ templates[2].lastModified < now - 5 * DAY
  /\ Len(prompts) = 2
  /\ prompts[1].id = templates[2].id

\* the vector has norm zero
ZeroNorm(values) == \A i \in DOMAIN values : values[i] = 0

\* the score without the semantic term
PlainScore(p, query) ==
  KeywordScore(p, ToLowerCase(query)) * ScoreUnit + RecencyBoost(p, now) + UsageBoost(p)

\* C26 as stated: cosineSimilarity returns 0, not NaN, when either vector
\* has norm zero, so that the semantic term is 0 and the score of the
\* template stays a number.
C26_AsStated ==
  Searched
  => \A k \in DOMAIN templates :
        (/\ op.queryEmbedding.vector /\ templates[k].embedding.vector
         /\ Len(op.queryEmbedding.values) = Len(templates[k].embedding.values)
         /\ ZeroNorm(op.queryEmbedding.values) \/ ZeroNorm(templates[k].embedding.values))
        => /\ cosineSimilarity(op.queryEmbedding.values, templates[k].embedding.values) = Num(0)
           /\ ScoreAt(k) = Num(PlainScore(templates[k], op.query))
           /\ (2 * PlainScore(templates[k], op.query) > ScoreUnit)
                 => PlaceOf(templates[k].id) > 0

\* C27: when the query embedding and a template's embedding differ in
\* length, cosineSimilarity returns 0 and the template's score is the sum
\* of its keyword, recency and usage terms; the template is in the result
\* when that sum is above 0.5.
C27_LengthMismatch ==
  Searched
  => \A k \in DOMAIN templates :
        (/\ op.queryEmbedding.vector /\ templates[k].embedding.vector
         /\ Len(op.queryEmbedding.values) # Len(templates[k].embedding.values))
        => /\ cosineSimilarity(op.queryEmbedding.values, templates[k].embedding.values) = Num(0)
           /\ ScoreAt(k) = Num(PlainScore(templates[k], op.query))
           /\ (2 * PlainScore(templates[k], op.query) > ScoreUnit)
                 => /\ PlaceOf(templates[k].id) > 0
                    /\ prompts[PlaceOf(templates[k].id)].score
                         = Num(PlainScore(templates[k], op.query))

\* a search with a two-dimensional query embedding over a template with a
\* one-dimensional embedding, next to one whose embedding it matches
C27_Witness ==
  /\ Searched
  /\ op.queryEmbedding = Embedding(<<3, 4>>)
  /\ Len(templates) = 2
  /\ templates[1].embedding = Embedding(<<1>>)
  /\ templates[2].embedding = Embedding(<<3, 4>>)
  /\ Len(prompts) = 2
  /\ prompts[2].id = templates[1].id
  /\ prompts[2].score = Num(PlainScore(templates[1], op.query))
  /\ prompts[1].score.v = PlainScore(templates[2], op.query) + 25 * ScoreUnit

(* ============== storageService.search: claims C31 and C40 ============== *)
\* the semantic term of the k-th stored template is 0 by the contract of
\* the search: an embedding is missing, the lengths differ, a norm is zero,
\* or the vectors are orthogonal
NoSemanticSignal(k) ==
  LET q == op.queryEmbedding
      e == templates[k].embedding
  IN  IF q.vector /\ e.vector
      THEN IF Len(q.values) # Len(e.values) THEN TRUE
           ELSE ZeroNorm(q.values) \/ ZeroNorm(e.values) \/ Dot(q.values, e.values) = 0
      ELSE TRUE

\* C31 as stated: a template with no keyword match and no semantic signal
\* is returned for a query that is not empty exactly when its recency and
\* usage terms together exceed 0.5.
C31_AsStated ==
  Searched
  => \A k \in DOMAIN templates :
        (NoKeywordMatch(templates[k], op.query) /\ NoSemanticSignal(k))
        => (PlaceOf(templates[k].id) > 0
            <=> 2 * (RecencyBoost(templates[k], now) + UsageBoost(templates[k])) > ScoreUnit)

\* C31 apart from vectors of norm zero
C31_NonZeroNorms ==
  Searched
  => \A k \in DOMAIN templates :
        (/\ NoKeywordMatch(templates[k], op.query) /\ NoSemanticSignal(k)
         /\ ~(/\ op.queryEmbedding.vector /\ templates[k].embedding.vector
               /\ Len(op.queryEmbedding.values) = Len(templates[k].embedding.values)))
        => (PlaceOf(templates[k].id) > 0
            <=> 2 * (RecencyBoost(templates[k], now) + UsageBoost(templates[k])) > ScoreUnit)

\* the similarity of the query and the k-th stored template was computed
\* and came out negative
NegativeSimilarity(k) ==
  LET q == op.queryEmbedding
      e == templates[k].embedding
  IN  IF q.vector /\ e.vector
      THEN IF Len(q.values) = Len(e.values)
           THEN ~ZeroNorm(q.values) /\ ~ZeroNorm(e.values) /\ Dot(q.values, e.values) < 0
           ELSE FALSE
      ELSE FALSE

\* the similarity of the query and the k-th stored template was computed
\* over a vector of norm zero
UndefinedSimilarity(k) ==
  LET q == op.queryEmbedding
      e == templates[k].embedding
  IN  IF q.vector /\ e.vector
      THEN IF Len(q.values) = Len(e.values)
           THEN ZeroNorm(q.values) \/ ZeroNorm(e.values)
           ELSE FALSE
      ELSE FALSE

\* C40: for a query that is not empty and no query embedding, every stored
\* template with a keyword match in name, description or a tag is returned,
\* whatever its age and usage count; with a query embedding a template with
\* a keyword match is dropped only when its similarity to the query came
\* out negative (or undefined), and a negative similarity does drop some.
C40_KeywordMatchReturned ==
  Searched
  => \A k \in DOMAIN templates :
        ~NoKeywordMatch(templates[k], op.query)
        => /\ ~op.queryEmbedding.vector => PlaceOf(templates[k].id) > 0
           /\ PlaceOf(templates[k].id) = 0
              => NegativeSimilarity(k) \/ UndefinedSimilarity(k)

\* a template that matches the query by keyword was dropped for its
\* negative similarity
C40_Witness ==
  /\ Searched
  /\ \E k \in DOMAIN templates :
        /\ ~NoKeywordMatch(templates[k], op.query)
        /\ NegativeSimilarity(k)
        /\ PlaceOf(templates[k].id) = 0

\* a search without query embedding returned an old, unused template on
\* its keyword match alone
C40_ReturnedOnKeyword ==
  /\ Searched
  /\ ~op.queryEmbedding.vector
  /\ \E k \in DOMAIN templates :
        /\ ~NoKeywordMatch(templates[k], op.query)
        /\ templates[k].usageCount = 0
        /\ RecencyBoost(templates[k], now) = 0
        /\ PlaceOf(templates[k].id) > 0

(* =================== library search: claims C22, C28 =================== *)
\* C22 as stated: a search result is applied to the displayed list only if
\* its query is still the latest one issued; the result of a stale query
\* whose embedding call was in flight is discarded.
C22_AsStated ==
  [][ op'.kind = "results" => op'.term = searchTerm' ]_vars

\* the stored template with this id
Stored(id) == templates[CHOOSE k \in DOMAIN templates : templates[k].id = id]

\* C28: a failing or absent embedding capability is not fatal: without an
\* API key, and when embedContent keeps failing (a retryable error is
\* retried three times first), the handler has no query embedding, still
\* runs the search and shows its result, in which every template is scored
\* by keyword + recency + usage only.
C28_EmbeddingUnavailable ==
  (op.kind = "results" /\ op.cause \in {"no key", "error"})
  => /\ op.queryEmbedding = NoEmbedding
     /\ (op.cause = "error" /\ op.outcome.status \in {500, 503}) => op.retries = 0
     /\ ~isSearching
     /\ Len(prompts)
          = Cardinality({k \in DOMAIN templates :
                           2 * PlainScore(templates[k], op.term) > ScoreUnit})
     /\ \A i \in DOMAIN prompts :
           /\ prompts[i].score = Num(PlainScore(Stored(prompts[i].id), op.term))
           /\ \A j \in DOMAIN prompts : i < j => prompts[i].score.v >= prompts[j].score.v

\* embedContent has failed four times for the query "mail" on the store
\* whose templates carry embeddings; the result ranks the template named
\* "Mail" first, which a query embedding of <<3, 4>> would have removed
C28_Witness ==
  /\ op.kind = "results" /\ op.cause = "error"
  /\ op.outcome = Err503 /\ op.retries = 0
  /\ op.term = <<"m", "a", "i", "l">>
  /\ \A k \in DOMAIN templates : templates[k].embedding.vector
  /\ Len(prompts) = 2
  /\ prompts[1].id = "b"
  /\ Len(search(templates, op.term, Embedding(<<3, 4>>), now)) = 1

(* ===================== the usage counter: claim C29 ==================== *)
\* C29 as stated: for every template id the stored usage counter never
\* decreases over any sequence of save, incrementUsage, delete and import.
C29_AsStated ==
  \A k \in DOMAIN templates : templates[k].usageCount >= peakUsage[templates[k].id]

\* C29, amended: an operation of the store never lowers the usage counter
\* of a template that is stored before and after it, whatever count the
\* caller hands in; a template that is stored anew starts at 0.
C29_NoDecreaseWhileStored ==
  [][ \A id \in StoreIds :
        LET before == FindIndex(templates, id)
            after == FindIndex(templates', id)
        IN  /\ (before >= 1 /\ after >= 1)
                => templates'[after].usageCount >= templates[before].usageCount
            /\ (before = 0 /\ after >= 1) => templates'[after].usageCount = 0
    ]_vars

\* a template that had been used six times was saved again with a usage
\* count of 0 and has kept its six
C29_Witness ==
  /\ op.kind = "save"
  /\ op.template.usageCount = 0
  /\ FindIndex(templates, op.template.id) >= 1
  /\ templates[FindIndex(templates, op.template.id)].usageCount = 6

(* ======================== withRetry: claims C5-C7 ======================= *)
RECURSIVE Pow2(_)
Pow2(n) == IF n = 0 THEN 1 ELSE 2 * Pow2(n - 1)

RECURSIVE SumOfDelays(_, _)
SumOfDelays(first, n) ==
  IF n = 0 THEN 0 ELSE SumOfDelays(first, n - 1) + first * Pow2(n - 1)

\* the classification as the specification words it
Transient(error) ==
  \/ error.status \in {500, 503}
  \/ error.hasMessage /\ \E i \in 1..Len(error.message) :
        \E j \in i..Len(error.message) : SubSeq(error.message, i, j) = Overloaded

\* index of the first invocation of the scripted operation that resolves
FirstOk == IF \E i \in DOMAIN fn : fn[i].ok
           THEN CHOOSE i \in DOMAIN fn : fn[i].ok /\ \A j \in 1..(i - 1) : ~fn[j].ok
           ELSE 0

\* C5: an operation that fails with a retryable error n times and then
\* succeeds, under maxRetries >= n, makes withRetry return the success value
\* after n + 1 invocations; the k-th retry is preceded by a sleep of
\* initialDelay * 2^(k-1), so the time slept is the sum of
\* initialDelay * 2^k for k in 0..n-1.
C5_RetryThenSuccess ==
  /\ rpc = "sleep" => delay = args.initialDelay * Pow2(attempts - 1)
  /\ (/\ rpc = "done"
      /\ FirstOk # 0
      /\ FirstOk - 1 <= args.maxRetries
      /\ \A i \in 1..(FirstOk - 1) : Transient(fn[i]))
     => /\ result = fn[FirstOk]
        /\ attempts = FirstOk
        /\ slept = SumOfDelays(args.initialDelay, FirstOk - 1)

\* three retryable failures of different kinds, then success on the last
\* retry that maxRetries = 3 allows
C5_Witness ==
  /\ rpc = "done"
  /\ args.maxRetries = 3
  /\ FirstOk = 4
  /\ fn[1] = Err503 /\ fn[2] = ErrOverloaded /\ fn[3] = Err500
  /\ result.ok
  /\ slept = 7 * args.initialDelay

\* C6: when the operation fails with a retryable error more often than
\* maxRetries allows, withRetry rejects with the error object of the failing
\* invocation as it is (status and message intact, not wrapped), also when
\* the successive invocations failed with different errors.
C6_ExhaustedPropagates ==
  (/\ rpc = "done"
   /\ \A i \in 1..(args.maxRetries + 1) : ~fn[i].ok /\ Transient(fn[i]))
  => /\ attempts = args.maxRetries + 1
     /\ result = fn[args.maxRetries + 1]
     /\ result \in {fn[i] : i \in 1..(args.maxRetries + 1)}

\* two retries were used up on three different retryable errors
C6_Witness ==
  /\ rpc = "done"
  /\ args.maxRetries = 2
  /\ fn[1] = Err503 /\ fn[2] = ErrOverloaded /\ fn[3] = Err500
  /\ attempts = 3
  /\ result = Err500

\* C7: an error is retried iff its status is 500 or 503 or its message
\* contains "overloaded" (and a retry is left); any other error ends the call
\* at once: no sleep follows it, it is the error propagated, and when it is
\* the first error the operation was invoked exactly once and nothing slept.
C7_Classification ==
  /\ rpc = "sleep" => Transient(fn[attempts])
  /\ (rpc = "done" /\ ~result.ok /\ Transient(result))
        => attempts = args.maxRetries + 1
  /\ (attempts >= 1 /\ ~fn[attempts].ok /\ ~Transient(fn[attempts]))
        => /\ rpc = "done"
           /\ result = fn[attempts]
           /\ slept = SumOfDelays(args.initialDelay, attempts - 1)
  /\ (attempts >= 1 /\ ~fn[1].ok /\ ~Transient(fn[1]))
        => attempts = 1 /\ slept = 0 /\ result = fn[1]

\* an error whose message has the marker with a capital letter is not
\* retried although three retries are allowed
C7_Witness ==
  /\ rpc = "done"
  /\ args.maxRetries = 3
  /\ fn[1] = ErrCapital
  /\ attempts = 1
  /\ slept = 0
  /\ result = ErrCapital

(* ================= storageService: claims C32 to C35 =================== *)
\* C32: save of a template whose id is stored replaces the stored template
\* at its place with the one handed in, except that the stored usage count
\* is kept and the stored embedding is kept when the update carries none;
\* save of an id that is not stored appends the template with usage count 0.
C32_SaveReplacesInPlace ==
  [][ op'.kind = "save"
      => LET t == op'.template
             index == FindIndex(templates, t.id)
         IN  IF index >= 1
             THEN /\ Len(templates') = Len(templates)
                  /\ \A k \in DOMAIN templates : k # index => templates'[k] = templates[k]
                  /\ templates'[index].id = t.id
                  /\ templates'[index].lastModified = t.lastModified
                  /\ templates'[index].usageCount = templates[index].usageCount
                  /\ templates'[index].embedding =
                       IF t.embedding.vector THEN t.embedding
                       ELSE templates[index].embedding
             ELSE templates' = Append(templates, [t EXCEPT !.usageCount = 0])
    ]_vars

\* a stored template with an embedding and a usage count of its own was
\* saved again by an update that carries no embedding and another count: it
\* has the update's lastModified, its own count and its own embedding
C32_Witness ==
  /\ op.kind = "save"
  /\ ~op.template.embedding.vector
  /\ op.template.usageCount = 7
  /\ LET index == FindIndex(templates, op.template.id)
     IN  IF index >= 1
         THEN /\ templates[index].embedding.vector
              /\ templates[index].usageCount = 6
              /\ templates[index].lastModified = op.template.lastModified
         ELSE FALSE

\* a template was saved under an id that was not stored and sits at the
\* end of the store with usage count 0, though it was handed in with 7
C32_AppendedWitness ==
  /\ op.kind = "save"
  /\ op.template.usageCount = 7
  /\ Len(templates) >= 2
  /\ templates[Len(templates)].id = op.template.id
  /\ templates[Len(templates)].usageCount = 0
  /\ templates[Len(templates)].lastModified = Edited

\* C33: incrementUsage(id) adds exactly 1 to the usage count of the stored
\* template with that id and changes nothing else of it (lastModified
\* included) and no other template; for an id that is not stored the store
\* stays as it is.
C33_IncrementUsage ==
  [][ op'.kind = "incrementUsage"
      => LET index == FindIndex(templates, op'.id)
         IN  IF index >= 1
             THEN /\ Len(templates') = Len(templates)
                  /\ \A k \in DOMAIN templates : k # index => templates'[k] = templates[k]
                  /\ templates'[index] =
                       [templates[index] EXCEPT !.usageCount = templates[index].usageCount + 1]
                  /\ templates'[index].lastModified = templates[index].lastModified
             ELSE templates' = templates
    ]_vars

\* a seed has been used once: its count went from 5 to 6, its lastModified
\* and its embedding are the seed's, and the other seed is as it was
C33_Witness ==
  /\ op.kind = "incrementUsage"
  /\ Len(templates) = 2
  /\ templates[1].id = op.id
  /\ templates[1] = [id |-> SEED_DATA[1].id, usageCount |-> SEED_DATA[1].usageCount + 1,
                     embedding |-> NoEmbedding, lastModified |-> Seeded]
  /\ templates[2] = SEED_DATA[2] @@ [embedding |-> NoEmbedding, lastModified |-> Seeded]

\* incrementUsage was called for an id that is not stored
C33_UnknownIdWitness ==
  /\ op.kind = "incrementUsage"
  /\ FindIndex(templates, op.id) = 0
  /\ templates # <<>>

\* the ids stored
StoredIdSet == {templates[k].id : k \in DOMAIN templates}

\* C34 as stated: after an import the stored collection is exactly the
\* imported templates, with none of the templates stored before left.
C34_AsStated == op.kind = "import" => StoredIdSet = op.ids

\* C35: whatever save, incrementUsage, delete and import operations are
\* run on the seeded store, no two stored templates share an id, and
\* delete(id) removes the template with that id and leaves every other
\* template as it was, in the order it was.
C35_UniqueIds ==
  [][ /\ \A j, k \in DOMAIN templates' : templates'[j].id = templates'[k].id => j = k
      /\ op'.kind = "delete"
         => LET index == FindIndex(templates, op'.id)
            IN  IF index >= 1
                THEN /\ Len(templates') = Len(templates) - 1
                     /\ \A k \in DOMAIN templates' :
                          templates'[k] = templates[IF k < index THEN k ELSE k + 1]
                ELSE templates' = templates
    ]_vars

\* a template that had been deleted and was stored again, after the other
\* one, has been deleted from a store of two: the other one is left, alone
C35_Witness ==
  /\ op.kind = "delete"
  /\ op.id = SEED_DATA[2].id
  /\ Len(templates) = 1
  /\ templates[1].id = SEED_DATA[1].id
  /\ templates[1].lastModified = Edited
  /\ peakUsage[SEED_DATA[1].id] > templates[1].usageCount

(* ================= workflows and buckets: claims C36 to C38 ============ *)
\* C36: the token a workflow checked out is not given back when one of its
\* model calls fails for good: at the return of the failed workflow no
\* bucket and no saved record changes, the bucket of the run is at least
\* one token short of full and the saved record is the debited bucket.
C36_DebitStays ==
  [][ (op'.kind = "continue" /\ ~isExecuting' /\ ~res'.metadata)
      => /\ tokens' = tokens
         /\ lastRefill' = lastRefill
         /\ localStorage' = localStorage
         /\ tokens'[limiter'] <= (maxTokens(limiter') - 1) * TokenUnit
         /\ localStorage'[storageKey(limiter')]
              = [tokens |-> tokens'[limiter'], lastRefill |-> lastRefill'[limiter']]
    ]_vars

\* the first run, a step-back in smart mode, got its first answer and lost
\* its second call to an error: the heavy bucket holds one token of its
\* two, in memory and in the saved record
C36_Witness ==
  /\ op.kind = "continue"
  /\ ~isExecuting
  /\ ~res.metadata
  /\ runs = 1
  /\ prompt.stepBack /\ prompt.mode = "smart"
  /\ step = 2
  /\ tokens["pro"] = (maxTokens("pro") - 1) * TokenUnit
  /\ localStorage[storageKey("pro")].tokens = (maxTokens("pro") - 1) * TokenUnit

\* the view's template asks for step-back in smart or reasoning mode
HeavyStepBack(p) == p.stepBack /\ p.mode \in {"smart", "reasoning"}

SmartRequest(w, k) ==
  [model |-> ModelOfCall(w, "smart", k), step |-> k,
   config |-> FALSE,
   context |-> IF k = 1 THEN NoText ELSE Reply(k - 1)]

C38_DirectWitness ==
  /\ Workflow(prompt) = "executeStandardPrompt"
  /\ ModeOf(prompt) = "reasoning"
  /\ Len(sent) = 1
  /\ sent[1].config

(* ======================= withRetry: claim C39 ========================== *)
\* the sleeps withRetry has begun
Sleeps == IF rpc \in {"call", "sleep"} THEN attempts ELSE attempts - 1

\* C39: withRetry over an operation that settles each time it is invoked
\* invokes it at most maxRetries + 1 times, sleeps at most maxRetries
\* times, and returns or throws in the end, whatever the outcomes are.
C39_Terminates ==
  /\ [](/\ attempts <= args.maxRetries + 1
        /\ Sleeps <= args.maxRetries
        /\ retries >= 0)
  /\ <>(rpc = "done")

\* every attempt failed with a retryable error: withRetry has thrown after
\* maxRetries + 1 invocations and maxRetries sleeps
C39_Witness ==
  /\ rpc = "done"
  /\ args.maxRetries = MaxRetries
  /\ attempts = args.maxRetries + 1
  /\ Sleeps = args.maxRetries
  /\ ~result.ok
  /\ \A i \in 1..attempts : ~fn[i].ok /\ IsRetryable(fn[i])
  /\ \E i, j \in 1..attempts : fn[i].status # fn[j].status

====
